---- MODULE Spec2Model ----
(***************************************************************************)
(* Query splitting and response merging of the partial-query-caching demo. *)
(*                                                                         *)
(* A document is a sequence of definitions; a definition is a record      *)
(* [kind, name, selection_set]; a selection is a record                   *)
(* [kind, name, selection_set] where kind is "Field" (name = field name)  *)
(* or "InlineFragment" (name = type condition, "" when absent) or         *)
(* "FragmentSpread" (name = fragment name). A fragment definition is a    *)
(* record [kind, name, type_condition, selection_set].                    *)
(* Option<u64> is the record [some, val].                                 *)
(***************************************************************************)
EXTENDS Integers, Sequences, FiniteSets, TLC

VARIABLES
    pc,                 \* position of the request in handle_with_error
    source,             \* the tokens of a query text handed to Document::parse
    parsed,             \* the outcome of Document::parse
    request_document,   \* the document as parsed from the request
    inlined,            \* the outcome of inline_fragments
    input_document,     \* input.document
    manifest,           \* the manifest of the request
    documents_to_split, \* the work list of split()
    document_splits,    \* the result map of split()
    last_split,         \* the work item and the splitter result of the last loop iteration
    iterations,         \* number of iterations of the split loop so far
    parts,              \* the partial queries handed to merge_responses
    merged,             \* the outcome of merge_responses
    folding             \* a folder of split/ and the outcome of a fold with it

vars == <<pc, source, parsed, request_document, inlined, input_document, manifest, documents_to_split, document_splits,
          last_split, iterations, parts, merged, folding>>

----------------------------------------------------------------------------
(* Bounds *)

MaxNodes == 4

MaxIterations == 12

MaxFragments == 2

----------------------------------------------------------------------------
(* Option<u64> *)

None == [some |-> FALSE, val |-> 0]

Some(n) == [some |-> TRUE, val |-> n]

\* a.or(b)
OptOr(a, b) == IF a.some THEN a ELSE b

min(a, b) ==
    IF a.some /\ b.some
    THEN (IF a.val <= b.val THEN Some(a.val) ELSE Some(b.val))
    ELSE OptOr(a, b)

----------------------------------------------------------------------------
(* AST *)

Field(name, selection_set) ==
    [kind |-> "Field", name |-> name, selection_set |-> selection_set]

InlineFragment(type_condition, selection_set) ==
    [kind |-> "InlineFragment", name |-> type_condition, selection_set |-> selection_set]

OperationDefinition(name, selection_set) ==
    [kind |-> "Operation", name |-> name, selection_set |-> selection_set]

FragmentSpread(name) ==
    [kind |-> "FragmentSpread", name |-> name, selection_set |-> <<>>]

FragmentDefinition(name, type_condition, selection_set) ==
    [kind |-> "Fragment", name |-> name, type_condition |-> type_condition,
     selection_set |-> selection_set]

\* Path segments: Index(i) and SelectionSet
Index(i) == [seg |-> "Index", i |-> i]

SelectionSetSeg == [seg |-> "SelectionSet", i |-> 0]

----------------------------------------------------------------------------
(* Schema: object types and the named type of each field's output *)

SchemaFields ==
    [Query |-> [lowMaxAge |-> "Int", highMaxAge |-> "Int", noMaxAge |-> "Int",
                nested |-> "Query", todo |-> "Todo"],
     Todo  |-> [id |-> "ID", text |-> "String", done |-> "Boolean"]]

ObjectTypes == DOMAIN SchemaFields

\* schema.get_root_type(operation.operation) for a query operation
RootType == "Query"

\* object.get_field(name): is the field defined
HasField(type, name) == type \in ObjectTypes /\ name \in DOMAIN SchemaFields[type]

\* field_definition.output_type.of_type().into_schema_type()
FieldType(type, name) == SchemaFields[type][name]

----------------------------------------------------------------------------
(* Manifest *)

NoKeyFields == [some |-> FALSE, val |-> {}]

CacheConfigType(cache_control, key_fields, fields) ==
    [cache_control |-> cache_control, key_fields |-> key_fields, fields |-> fields]

default_key_fields == {"id", "_id", "key"}

\* Field policies only, as in the manifest of the tests
ManifestFields ==
    [cache_config |->
        [Query |-> CacheConfigType(None, NoKeyFields,
                       [lowMaxAge |-> Some(100), highMaxAge |-> Some(200)]),
         Todo  |-> CacheConfigType(None, NoKeyFields, [text |-> Some(200)])],
     default_key_fields |-> default_key_fields]

\* Type policies, and field policies on fields that have a selection set;
\* three field max-ages on one type, so that a selection set has two groups
ManifestTypes ==
    [cache_config |->
        [Query |-> CacheConfigType(None, NoKeyFields,
                       [lowMaxAge |-> Some(100), nested |-> Some(200),
                        highMaxAge |-> Some(300)]),
         Todo  |-> CacheConfigType(Some(600), NoKeyFields, [text |-> Some(900)])],
     default_key_fields |-> default_key_fields]

\* A type policy on the root type and key fields configured per type
ManifestKeys ==
    [cache_config |->
        [Query |-> CacheConfigType(Some(50), [some |-> TRUE, val |-> {"noMaxAge"}],
                       [lowMaxAge |-> Some(100), highMaxAge |-> Some(200)]),
         Todo  |-> CacheConfigType(None, [some |-> TRUE, val |-> {"text"}],
                       [id |-> Some(50), done |-> Some(300)])],
     default_key_fields |-> default_key_fields]

Manifests == {ManifestFields, ManifestTypes, ManifestKeys}

type_max_age(m, type_name) ==
    IF type_name \in DOMAIN m.cache_config
    THEN m.cache_config[type_name].cache_control
    ELSE None

field_max_age(m, type_name, field_name) ==
    IF type_name \in DOMAIN m.cache_config
       /\ field_name \in DOMAIN m.cache_config[type_name].fields
    THEN m.cache_config[type_name].fields[field_name]
    ELSE None

key_field_names(m, type_name) ==
    IF type_name \in DOMAIN m.cache_config /\ m.cache_config[type_name].key_fields.some
    THEN m.cache_config[type_name].key_fields.val
    ELSE m.default_key_fields

----------------------------------------------------------------------------
(* QuerySplitter: one pass of the single-split visitor *)

NoResult ==
    [kind |-> "None", selection_set |-> <<>>, max_age |-> None,
     splits |-> <<>>, path |-> <<>>]

ErrResult(message) ==
    [kind |-> "Err", selection_set |-> <<>>, max_age |-> None,
     splits |-> <<>>, path |-> <<[seg |-> message, i |-> 0]>>]

\* SelectionSplits { selection_set, max_age, splits, path }
SelectionSplits(selection_set, max_age, splits, path) ==
    [kind |-> "Ok", selection_set |-> selection_set, max_age |-> max_age,
     splits |-> splits, path |-> path]

\* QuerySplitter::new
NewQuerySplitter ==
    [result |-> NoResult, current_max_age |-> None, type_stack |-> <<>>]

Flow(st, flow) == [st |-> st, flow |-> flow]

Last(s) == s[Len(s)]

Pop(s) == SubSeq(s, 1, Len(s) - 1)

enter_operation(m, op_name, st, operation) ==
    IF operation.name # op_name
    THEN Flow(st, "Skip")
    ELSE IF RootType \in ObjectTypes
         THEN Flow([st EXCEPT !.current_max_age = type_max_age(m, RootType),
                              !.type_stack = Append(@, RootType)], "Next")
         ELSE Flow([st EXCEPT !.result = ErrResult("no root type")], "Break")

\* the loop of lines 108-119: the minimum over the field max-ages, from the inherited max-age
RECURSIVE MinFieldMaxAge(_, _, _, _, _)
MinFieldMaxAge(m, type_name, selection_set, i, acc) ==
    IF i > Len(selection_set)
    THEN acc
    ELSE IF selection_set[i].kind = "Field"
         THEN MinFieldMaxAge(m, type_name, selection_set, i + 1,
                             min(acc, field_max_age(m, type_name, selection_set[i].name)))
         ELSE MinFieldMaxAge(m, type_name, selection_set, i + 1, acc)

\* the mutation of the key-field replication: the key fields are not appended
DropKeyFields(selections, key_fields) == selections

\* the mutation of the key-field replication: the key fields are put in front
PrependKeyFields(selections, key_fields) == key_fields \o selections

\* lines 172-174 and 183-185: the key fields of the selection set are pushed
\* after the selections of every extracted group and after the remainder
PushKeyFields(selections, key_fields) == selections \o key_fields

\* the mutation of the decision: the arm (1, 0) is forgotten
SplitsWheneverExtracted(selections_split_len, non_splittable_len) ==
    selections_split_len # 0

\* the mutation of the decision: the arm of one group beside other selections is forgotten
SplitsOnTwoGroups(selections_split_len, non_splittable_len) ==
    selections_split_len >= 2

\* the decision of lines 168-198 on the sizes of the two collections
YieldsSplit(selections_split_len, non_splittable_len) ==
    ~ (selections_split_len = 0
       \/ (selections_split_len = 1 /\ non_splittable_len = 0))

\* the mutation of the comparison: a field of the least max-age is extracted too
ReachesMinMaxAge(field_max_age_val, min_max_age_val) == field_max_age_val >= min_max_age_val

\* line 152: field_max_age > min_max_age
Exceeds(field_max_age_val, min_max_age_val) == field_max_age_val > min_max_age_val

enter_selection_set(m, st, selection_set, path) ==
    IF selection_set = <<>>
    THEN Flow(st, "Skip")
    ELSE IF st.type_stack = <<>>
    THEN Flow([st EXCEPT !.result = ErrResult("no type")], "Break")
    ELSE
    LET current_type_name == Last(st.type_stack)
        current_max_age == min(st.current_max_age, type_max_age(m, current_type_name))
        IsField(s) == s.kind = "Field"
        min_max_age == MinFieldMaxAge(m, current_type_name, selection_set, 1, current_max_age)
    IN  IF ~ min_max_age.some
        THEN Flow([st EXCEPT !.current_max_age = current_max_age], "Next")
        ELSE
        LET IsKey(s) == IsField(s) /\ s.name \in key_field_names(m, current_type_name)
            Age(s) == OptOr(field_max_age(m, current_type_name, s.name), current_max_age)
            IsSplit(s) == IsField(s) /\ ~ IsKey(s) /\ Age(s).some
                          /\ Exceeds(Age(s).val, min_max_age.val)
            IsNonSplittable(s) == ~ IsKey(s) /\ ~ IsSplit(s)
            key_fields == SelectSeq(selection_set, IsKey)
            non_splittable == SelectSeq(selection_set, IsNonSplittable)
            split_ages == { Age(selection_set[i]).val :
                              i \in { j \in 1..Len(selection_set) : IsSplit(selection_set[j]) } }
            selections_split ==
                [a \in split_ages |->
                    LET InGroup(s) == IsSplit(s) /\ Age(s).val = a
                    IN  SelectSeq(selection_set, InGroup)]
            splits == [a \in split_ages |-> PushKeyFields(selections_split[a], key_fields)]
            st1 == [st EXCEPT !.current_max_age = min_max_age]
        IN  IF ~ YieldsSplit(Cardinality(split_ages), Len(non_splittable))
            THEN Flow(st1, "Next")
            ELSE Flow([st1 EXCEPT !.result =
                          SelectionSplits(PushKeyFields(non_splittable, key_fields),
                                          st1.current_max_age, splits, path)],
                      "Break")

IsIntrospection(name) == name \in {"__typename", "__schema", "__type"}

enter_field(st, field) ==
    IF IsIntrospection(field.name)
    THEN Flow(st, "Skip")
    ELSE IF st.type_stack = <<>> \/ Last(st.type_stack) \notin ObjectTypes
    THEN Flow([st EXCEPT !.result = ErrResult("not an object type")], "Break")
    ELSE IF ~ HasField(Last(st.type_stack), field.name)
    THEN Flow([st EXCEPT !.result = ErrResult("unknown field")], "Break")
    ELSE Flow([st EXCEPT !.type_stack =
                  Append(@, FieldType(Last(st.type_stack), field.name))], "Next")

leave_field(st) == Flow([st EXCEPT !.type_stack = Pop(@)], "Next")

enter_inline_fragment(st, inline_fragment) ==
    IF inline_fragment.name # ""
    THEN IF inline_fragment.name \in ObjectTypes
         THEN Flow([st EXCEPT !.type_stack = Append(@, inline_fragment.name)], "Next")
         ELSE Flow([st EXCEPT !.result = ErrResult("unknown type condition")], "Break")
    ELSE IF st.type_stack # <<>>
         THEN Flow([st EXCEPT !.type_stack = Append(@, Last(@))], "Next")
         ELSE Flow([st EXCEPT !.result = ErrResult("no parent type")], "Break")

leave_inline_fragment(st) == Flow([st EXCEPT !.type_stack = Pop(@)], "Next")

----------------------------------------------------------------------------
(* The depth-first visitor that drives the callbacks *)

RECURSIVE VisitSelectionSet(_, _, _, _), VisitSelections(_, _, _, _, _)

\* the enter callback of a field or of an inline fragment
VisitEnter(st, selection) ==
    IF selection.kind = "Field"
    THEN enter_field(st, selection)
    ELSE enter_inline_fragment(st, selection)

\* the leave callback of a selection whose children returned r
VisitLeave(r, selection) ==
    IF r.flow = "Break"
    THEN r
    ELSE IF selection.kind = "Field"
         THEN leave_field(r.st)
         ELSE leave_inline_fragment(r.st)

\* the children of a selection whose enter callback returned e
VisitChildren(m, e, selection, path) ==
    IF e.flow # "Next"
    THEN e
    ELSE VisitLeave(VisitSelectionSet(m, e.st, selection.selection_set,
                                      Append(path, SelectionSetSeg)),
                    selection)

VisitSelection(m, st, selection, path) ==
    VisitChildren(m, VisitEnter(st, selection), selection, path)

\* the selections after the i-th, which returned r
VisitNextSelection(m, r, selection_set, path, i) ==
    IF r.flow = "Break"
    THEN r
    ELSE VisitSelections(m, r.st, selection_set, path, i + 1)

VisitSelections(m, st, selection_set, path, i) ==
    IF i > Len(selection_set)
    THEN Flow(st, "Next")
    ELSE VisitNextSelection(m, VisitSelection(m, st, selection_set[i],
                                              Append(path, Index(i - 1))),
                            selection_set, path, i)

\* the selections of a selection set whose enter callback returned e
VisitEntered(m, e, selection_set, path) ==
    IF e.flow # "Next"
    THEN e
    ELSE VisitSelections(m, e.st, selection_set, path, 1)

VisitSelectionSet(m, st, selection_set, path) ==
    VisitEntered(m, enter_selection_set(m, st, selection_set, path), selection_set, path)

\* the selection set of an operation whose enter callback returned e
VisitOperationEntered(m, e, operation, path) ==
    IF e.flow # "Next"
    THEN e
    ELSE VisitSelectionSet(m, e.st, operation.selection_set,
                           Append(path, SelectionSetSeg))

VisitOperation(m, op_name, st, operation, path) ==
    VisitOperationEntered(m, enter_operation(m, op_name, st, operation), operation, path)

RECURSIVE VisitDefinitions(_, _, _, _, _)
\* the definitions after the i-th, which returned r
VisitNextDefinition(m, op_name, r, document, i) ==
    IF r.flow = "Break"
    THEN r
    ELSE VisitDefinitions(m, op_name, r.st, document, i + 1)

VisitDefinitions(m, op_name, st, document, i) ==
    IF i > Len(document)
    THEN Flow(st, "Next")
    ELSE VisitNextDefinition(m, op_name,
                             VisitOperation(m, op_name, st, document[i], <<Index(i - 1)>>),
                             document, i)

\* document.visit(&ctx, &mut splitter); splitter.result
SplitterResult(m, op_name, document) ==
    VisitDefinitions(m, op_name, NewQuerySplitter, document, 1).st.result

----------------------------------------------------------------------------
(* SelectionSetReplacer and SelectionSetExtractor, as folds of a document *)

\* the mutation of the replacer fold: the selections below are not folded
ReplaceAtOperation(selection_set, info_path, path, replacement) ==
    IF path = info_path THEN replacement ELSE selection_set

RECURSIVE ReplaceSelectionSet(_, _, _, _)
\* Folder::selection_set of the replacer, followed by the fold of the children
ReplaceSelectionSet(selection_set, info_path, path, replacement) ==
    LET entered == IF path = info_path THEN replacement ELSE selection_set
    IN  [i \in 1..Len(entered) |->
            [entered[i] EXCEPT !.selection_set =
                ReplaceSelectionSet(@, info_path \o <<Index(i - 1), SelectionSetSeg>>,
                                    path, replacement)]]

\* document.fold(ctx, &mut SelectionSetReplacer::new(path, selection_set))
FoldReplacer(document, path, replacement) ==
    [d \in 1..Len(document) |->
        LET operation == IF path = <<Index(d - 1)>>
                         THEN [document[d] EXCEPT !.selection_set = replacement]
                         ELSE document[d]
        IN  [operation EXCEPT !.selection_set =
                ReplaceSelectionSet(@, <<Index(d - 1), SelectionSetSeg>>, path, replacement)]]

\* SelectionSetExtractor::new: the indices of the path after the definition index
RECURSIVE SelectionIndices(_)
SelectionIndices(path) ==
    IF path = <<>>
    THEN <<>>
    ELSE IF Head(path).seg = "Index"
         THEN <<Head(path).i>> \o SelectionIndices(Tail(path))
         ELSE SelectionIndices(Tail(path))

\* The extractor fold threads its queue of indices through the document in
\* pre-order; the result is [ok, node, queue].
RECURSIVE ExtractSelectionSet(_, _, _)
ExtractSelectionSet(selection_set, queue, replacement) ==
    IF queue = <<>>
    THEN [ok |-> TRUE, node |-> selection_set, queue |-> queue]
    ELSE IF Head(queue) + 1 > Len(selection_set)
    THEN [ok |-> FALSE, node |-> <<>>, queue |-> queue]
    ELSE LET selection == selection_set[Head(queue) + 1]
             rest == Tail(queue)
         IN  IF rest = <<>>
             THEN [ok |-> TRUE,
                   node |-> <<[selection EXCEPT !.selection_set = replacement]>>,
                   queue |-> rest]
             ELSE LET inner == ExtractSelectionSet(selection.selection_set, rest, replacement)
                  IN  [ok |-> inner.ok,
                       node |-> <<[selection EXCEPT !.selection_set = inner.node]>>,
                       queue |-> inner.queue]

RECURSIVE ExtractDefinitions(_, _, _, _)
ExtractDefinitions(document, d, queue, replacement) ==
    IF d > Len(document)
    THEN [ok |-> TRUE, node |-> <<>>, queue |-> queue]
    ELSE LET operation == IF queue = <<>>
                          THEN [document[d] EXCEPT !.selection_set = replacement]
                          ELSE document[d]
             folded == ExtractSelectionSet(operation.selection_set, queue, replacement)
             others == ExtractDefinitions(document, d + 1, folded.queue, replacement)
         IN  [ok |-> folded.ok /\ others.ok,
              node |-> <<[operation EXCEPT !.selection_set = folded.node]>> \o others.node,
              queue |-> others.queue]

\* document.fold(ctx, &mut SelectionSetExtractor::new(path, selection_set))
FoldExtractor(document, path, replacement) ==
    ExtractDefinitions(document, 1, SelectionIndices(Tail(path)), replacement)

----------------------------------------------------------------------------
(* Document::parse: the recursive descent of ast/parser.rs over the tokens *)

\* A query text is held as the sequence of its tokens: "{" is BraceOpen, "}"
\* BraceClose, "..." Ellipsis and every other string a Name; the keywords
\* fragment, on and query are names. The texts have no arguments, directives,
\* aliases or variables.

\* ctx.peek(): the token at a position, End behind the last one
Peek(tokens, pos) == IF pos > Len(tokens) THEN "End" ELSE tokens[pos]

\* Token::Name(_)
IsName(token) == token \notin {"{", "}", "...", "End"}

\* ParseResult: Ok(node) with the position behind it, or Err(ASTKind)
ParseOk(node, pos) == [ok |-> TRUE, node |-> node, pos |-> pos, kind |-> ""]

ParseErr(kind) == [ok |-> FALSE, node |-> <<>>, pos |-> 0, kind |-> kind]

NoParse == ParseErr("")

\* ParseNode for NamedType, lines 364-373
ParseNamedType(tokens, pos) ==
    IF IsName(Peek(tokens, pos))
    THEN ParseOk(tokens[pos], pos + 1)
    ELSE ParseErr("NamedType")

\* ParseNode for FragmentSpread, lines 346-362, behind the ellipsis
ParseFragmentSpreadNamed(name) ==
    IF name.ok THEN ParseOk(FragmentSpread(name.node), name.pos) ELSE name

ParseFragmentSpread(tokens, pos) ==
    IF Peek(tokens, pos) = "on" \/ ~ IsName(Peek(tokens, pos))
    THEN ParseErr("FragmentSpread")
    ELSE ParseFragmentSpreadNamed(ParseNamedType(tokens, pos))

\* builder.push in front of the selections or definitions parsed after it
PushParsed(node, rest) ==
    IF rest.ok THEN ParseOk(<<node>> \o rest.node, rest.pos) ELSE rest

RECURSIVE ParseSelectionSet(_, _), ParseSelections(_, _), ParseSelection(_, _)
RECURSIVE ParseField(_, _), ParseInlineFragment(_, _)

\* lines 428-434: the selection is pushed; a closing brace ends the loop
ParseNextSelection(tokens, selection) ==
    IF ~ selection.ok
    THEN selection
    ELSE IF Peek(tokens, selection.pos) = "}"
    THEN ParseOk(<<selection.node>>, selection.pos + 1)
    ELSE PushParsed(selection.node, ParseSelections(tokens, selection.pos))

ParseSelections(tokens, pos) ==
    ParseNextSelection(tokens, ParseSelection(tokens, pos))

\* ParseNode for SelectionSet, lines 423-441
ParseSelectionSet(tokens, pos) ==
    IF Peek(tokens, pos) = "{"
    THEN ParseSelections(tokens, pos + 1)
    ELSE ParseOk(<<>>, pos)

\* ParseNode for Selection, lines 401-421
ParseSelection(tokens, pos) ==
    IF IsName(Peek(tokens, pos))
    THEN ParseField(tokens, pos)
    ELSE IF Peek(tokens, pos) # "..."
    THEN ParseErr("Selection")
    ELSE IF Peek(tokens, pos + 1) \in {"{", "on"}
    THEN ParseInlineFragment(tokens, pos + 1)
    ELSE IF IsName(Peek(tokens, pos + 1))
    THEN ParseFragmentSpread(tokens, pos + 1)
    ELSE ParseErr("Selection")

\* lines 333-339
ParsedField(name, selection_set) ==
    IF selection_set.ok
    THEN ParseOk(Field(name, selection_set.node), selection_set.pos)
    ELSE selection_set

\* ParseNode for Field, lines 314-344
ParseField(tokens, pos) ==
    IF IsName(Peek(tokens, pos))
    THEN ParsedField(tokens[pos], ParseSelectionSet(tokens, pos + 1))
    ELSE ParseErr("Field")

\* lines 388-393
ParsedInlineFragment(type_condition, selection_set) ==
    IF selection_set.ok
    THEN ParseOk(InlineFragment(type_condition, selection_set.node), selection_set.pos)
    ELSE selection_set

\* lines 386-396: the selection set of an inline fragment must open with a brace
ParseInlineFragmentBody(tokens, type_condition) ==
    IF ~ type_condition.ok
    THEN type_condition
    ELSE IF Peek(tokens, type_condition.pos) = "{"
    THEN ParsedInlineFragment(type_condition.node,
                              ParseSelectionSet(tokens, type_condition.pos))
    ELSE ParseErr("InlineFragment")

\* ParseNode for InlineFragment, lines 375-399, behind the ellipsis
ParseInlineFragment(tokens, pos) ==
    ParseInlineFragmentBody(tokens,
                            IF Peek(tokens, pos) = "on"
                            THEN ParseNamedType(tokens, pos + 1)
                            ELSE ParseOk("", pos))

\* lines 532-537
ParsedFragmentDefinition(name, type_condition, selection_set) ==
    IF selection_set.ok
    THEN ParseOk(FragmentDefinition(name, type_condition, selection_set.node),
                 selection_set.pos)
    ELSE selection_set

\* lines 527-531: the selection set of a fragment must open with a brace
ParseFragmentBody(tokens, name, type_condition) ==
    IF ~ type_condition.ok
    THEN type_condition
    ELSE IF Peek(tokens, type_condition.pos) = "{"
    THEN ParsedFragmentDefinition(name, type_condition.node,
                                  ParseSelectionSet(tokens, type_condition.pos))
    ELSE ParseErr("FragmentDefinition")

\* lines 523-527: the token behind the name must be the name on
ParseTypeCondition(tokens, name) ==
    IF ~ name.ok
    THEN name
    ELSE IF Peek(tokens, name.pos) = "on"
    THEN ParseFragmentBody(tokens, name.node, ParseNamedType(tokens, name.pos + 1))
    ELSE ParseErr("FragmentDefinition")

\* ParseNode for FragmentDefinition, lines 518-544
ParseFragmentDefinition(tokens, pos) ==
    IF Peek(tokens, pos) = "fragment"
    THEN ParseTypeCondition(tokens, ParseNamedType(tokens, pos + 1))
    ELSE ParseErr("FragmentDefinition")

ParsedOperation(name, selection_set) ==
    IF selection_set.ok
    THEN ParseOk(OperationDefinition(name, selection_set.node), selection_set.pos)
    ELSE selection_set

\* lines 578-596: the optional name, then a selection set that opens with a brace
ParseOperationBody(tokens, name) ==
    IF Peek(tokens, name.pos) = "{"
    THEN ParsedOperation(name.node, ParseSelectionSet(tokens, name.pos))
    ELSE ParseErr("OperationDefinition")

\* ParseNode for OperationDefinition, lines 560-597
ParseOperationDefinition(tokens, pos) ==
    IF Peek(tokens, pos) = "{"
    THEN ParsedOperation("", ParseSelectionSet(tokens, pos))
    ELSE IF Peek(tokens, pos) \notin {"query", "mutation", "subscription"}
    THEN ParseErr("OperationDefinition")
    ELSE ParseOperationBody(tokens,
                            IF IsName(Peek(tokens, pos + 1))
                            THEN ParseNamedType(tokens, pos + 1)
                            ELSE ParseOk("", pos + 1))

RECURSIVE ParseDefinitions(_, _)
ParseNextDefinition(tokens, definition) ==
    IF definition.ok
    THEN PushParsed(definition.node, ParseDefinitions(tokens, definition.pos))
    ELSE definition

\* ParseNode for Document, lines 600-622
ParseDefinitions(tokens, pos) ==
    IF Peek(tokens, pos) \in {"{", "query", "mutation", "subscription"}
    THEN ParseNextDefinition(tokens, ParseOperationDefinition(tokens, pos))
    ELSE IF Peek(tokens, pos) = "fragment"
    THEN ParseNextDefinition(tokens, ParseFragmentDefinition(tokens, pos))
    ELSE IF Peek(tokens, pos) = "End"
    THEN ParseOk(<<>>, pos)
    ELSE ParseErr("Document")

\* Document::parse(ctx, source)
ParseDocument(tokens) == ParseDefinitions(tokens, 1)

----------------------------------------------------------------------------
(* inline_fragments: the fold of the target operation with the folder Fold *)

\* the outcomes of a fold: a node, an error, or a recursion that never returns
FoldOk(node) == [kind |-> "Ok", node |-> node, name |-> ""]

FoldErr(kind, name) == [kind |-> kind, node |-> <<>>, name |-> name]

FoldOverflow == [kind |-> "Overflow", node |-> <<>>, name |-> ""]

\* self.fragments(&ctx): the fragment definitions of the document by name
fragments(document) ==
    LET defined == { i \in 1..Len(document) : document[i].kind = "Fragment" }
    IN  [n \in { document[i].name : i \in defined } |->
            document[CHOOSE i \in defined :
                        /\ document[i].name = n
                        /\ \A j \in defined : document[j].name = n => j <= i]]

\* selections.push(selection) in front of the selections collected after it
PushSelection(selection, rest) ==
    IF rest.kind # "Ok" THEN rest ELSE FoldOk(<<selection>> \o rest.node)

\* a fold that leaves the spread where it is
KeepSpread(fragment_definition) == FragmentSpread(fragment_definition.name)

\* lines 60-64: the inline fragment that takes the place of a spread
InlineSpread(fragment_definition) ==
    InlineFragment(fragment_definition.type_condition, fragment_definition.selection_set)

\* Fold::selection_set, lines 55-82: every spread of the selection set becomes
\* an inline fragment at its position; the first unknown name is an error
RECURSIVE InlineSelections(_, _, _)
InlineSelections(fragment_map, selection_set, i) ==
    IF i > Len(selection_set)
    THEN FoldOk(<<>>)
    ELSE IF selection_set[i].kind # "FragmentSpread"
    THEN PushSelection(selection_set[i],
                       InlineSelections(fragment_map, selection_set, i + 1))
    ELSE IF selection_set[i].name \notin DOMAIN fragment_map
    THEN FoldErr("Err", selection_set[i].name)
    ELSE PushSelection(InlineSpread(fragment_map[selection_set[i].name]),
                       InlineSelections(fragment_map, selection_set, i + 1))

\* the fragments whose selection sets enclose the i-th selection of a set
\* that is itself enclosed by the fragments of stack
Enclosing(original, i, stack) ==
    IF original[i].kind = "FragmentSpread" THEN stack \cup {original[i].name} ELSE stack

\* FoldNode for SelectionSet, folder.rs lines 696-715: the callback, then the
\* fold of every selection it returned, in order. A spread of a fragment
\* inside the selection set of that fragment is folded again and again: the
\* recursion has no end and no check.
RECURSIVE FoldInlineSelectionSet(_, _, _), FoldInlineChildren(_, _, _, _, _)
FoldInlineChild(selection, folded, rest) ==
    IF folded.kind # "Ok"
    THEN folded
    ELSE PushSelection([selection EXCEPT !.selection_set = folded.node], rest)

FoldInlineChildren(fragment_map, original, selections, i, stack) ==
    IF i > Len(selections)
    THEN FoldOk(<<>>)
    ELSE IF original[i].kind = "FragmentSpread" /\ original[i].name \in stack
    THEN FoldOverflow
    ELSE FoldInlineChild(selections[i],
                         FoldInlineSelectionSet(fragment_map, selections[i].selection_set,
                                                Enclosing(original, i, stack)),
                         FoldInlineChildren(fragment_map, original, selections, i + 1, stack))

FoldInlineEntered(fragment_map, selection_set, entered, stack) ==
    IF entered.kind # "Ok"
    THEN entered
    ELSE FoldInlineChildren(fragment_map, selection_set, entered.node, 1, stack)

FoldInlineSelectionSet(fragment_map, selection_set, stack) ==
    FoldInlineEntered(fragment_map, selection_set,
                      InlineSelections(fragment_map, selection_set, 1), stack)

\* the index of the first operation of that name, 0 if there is none
FirstOperation(document, op_name) ==
    LET found == { d \in 1..Len(document) :
                     document[d].kind = "Operation" /\ document[d].name = op_name }
    IN  IF found = {} THEN 0 ELSE CHOOSE d \in found : \A e \in found : d <= e

\* the document fold_operation builds from the folded selection set of the operation
FoldedOperation(operation, folded) ==
    IF folded.kind # "Ok"
    THEN folded
    ELSE FoldOk(<<[operation EXCEPT !.selection_set = folded.node]>>)

\* Document::fold_operation with the folder Fold, folder.rs lines 821-855
fold_operation(document, op_name, fragment_map) ==
    IF FirstOperation(document, op_name) = 0
    THEN FoldErr("NoOperation", op_name)
    ELSE FoldedOperation(document[FirstOperation(document, op_name)],
                         FoldInlineSelectionSet(
                             fragment_map,
                             document[FirstOperation(document, op_name)].selection_set, {}))

IsOperationDefinition(definition) == definition.kind = "Operation"

\* lines 26-36: the definitions of self become the operations of the folded document
KeepOperations(folded) ==
    IF folded.kind # "Ok"
    THEN folded
    ELSE FoldOk(SelectSeq(folded.node, IsOperationDefinition))

\* a call that leaves the definitions of self as they were
DocumentKept(document, outcome) == document

\* lines 26-38: self.definitions after the call; an error leaves them as they were
DocumentAfter(document, outcome) ==
    IF outcome.kind = "Ok" THEN outcome.node ELSE document

\* an inlining that puts the other operations of the document behind the folded one
AppendOthers(document, inlined_document, op_name) ==
    IF inlined_document.kind # "Ok"
    THEN inlined_document
    ELSE FoldOk(inlined_document.node
                \o SelectSeq([d \in 1..Len(document) |->
                                 IF d = FirstOperation(document, op_name)
                                 THEN FragmentDefinition("", "", <<>>)
                                 ELSE document[d]],
                             IsOperationDefinition))

InlineKeepingOthers(document, op_name) ==
    AppendOthers(document,
                 KeepOperations(fold_operation(document, op_name, fragments(document))),
                 op_name)

\* Document::inline_fragments: [kind, node, name], node being the definitions
\* of self after the call
inline_fragments(document, op_name) ==
    KeepOperations(fold_operation(document, op_name, fragments(document)))

----------------------------------------------------------------------------
(* merge_documents *)

Reverse(s) == [i \in 1..Len(s) |-> s[Len(s) + 1 - i]]

\* document.operation(operation_name): the index of the named operation, 0 if none
OperationIndex(document, op_name) ==
    LET found == { d \in 1..Len(document) :
                     document[d].kind = "Operation" /\ document[d].name = op_name }
    IN  IF found = {} THEN 0 ELSE CHOOSE d \in found : \A e \in found : d <= e

\* each selection of a is prepended, in turn, to the selections of b
PrependEach(selections_a, selections_b) == Reverse(selections_a) \o selections_b

\* Some(document) of merge_documents when both documents hold the operation
merge_documents(document_a, document_b, op_name) ==
    LET a == OperationIndex(document_a, op_name)
        b == OperationIndex(document_b, op_name)
        others == SelectSeq([d \in 1..Len(document_a) |->
                                IF d = a THEN [document_a[d] EXCEPT !.kind = "Skip"]
                                ELSE document_a[d]],
                            LAMBDA def : def.kind # "Skip")
    IN  IF a # 0 /\ b # 0
        THEN Reverse(others) \o
             [document_b EXCEPT ![b].selection_set =
                 PrependEach(document_a[a].selection_set, @)]
        ELSE IF a # 0 THEN document_a ELSE document_b

----------------------------------------------------------------------------
(* JSON values: [t, n, s, o] with t the type, n the number, s the string,  *)
(* and o the entries [k, v] of an object or the elements of an array.      *)

JNull == [t |-> "null", n |-> 0, s |-> "", o |-> <<>>]

JNumber(n) == [t |-> "number", n |-> n, s |-> "", o |-> <<>>]

JString(str) == [t |-> "string", n |-> 0, s |-> str, o |-> <<>>]

JBool(b) == [t |-> "bool", n |-> IF b THEN 1 ELSE 0, s |-> "", o |-> <<>>]

JObject(entries) == [t |-> "object", n |-> 0, s |-> "", o |-> entries]

JArray(elements) == [t |-> "array", n |-> 0, s |-> "", o |-> elements]

Entry(k, v) == [k |-> k, v |-> v]

Keys(entries) == { entries[i].k : i \in 1..Len(entries) }

\* map.get(key), for a key of the map
MapValue(entries, key) ==
    entries[CHOOSE i \in 1..Len(entries) : entries[i].k = key].v

\* map.insert(key, value)
MapInsert(entries, key, value) ==
    IF key \in Keys(entries)
    THEN [i \in 1..Len(entries) |->
            IF entries[i].k = key THEN Entry(key, value) ELSE entries[i]]
    ELSE Append(entries, Entry(key, value))

NotFound == [found |-> FALSE, value |-> JNull]

\* partial_data.dot_get::<Value>(&dot_path) as used at line 158: Ok(Some(v)) or nothing
RECURSIVE dot_get(_, _)
dot_get(entries, path) ==
    IF path = <<>> \/ Head(path) \notin Keys(entries)
    THEN NotFound
    ELSE LET value == MapValue(entries, Head(path))
         IN  IF Len(path) = 1
             THEN [found |-> TRUE, value |-> value]
             ELSE IF value.t = "object"
                  THEN dot_get(value.o, Tail(path))
                  ELSE NotFound

\* self.data.dot_set(&dot_path, value) as used at line 180: [ok, entries]
RECURSIVE dot_set(_, _, _)
dot_set(entries, path, value) ==
    IF Len(path) = 1
    THEN [ok |-> TRUE, entries |-> MapInsert(entries, Head(path), value)]
    ELSE LET child == IF Head(path) \in Keys(entries)
                      THEN MapValue(entries, Head(path))
                      ELSE JNull
         IN  IF child.t \in {"object", "null"}
             THEN LET inner == dot_set(child.o, Tail(path), value)
                  IN  [ok |-> inner.ok,
                       entries |-> MapInsert(entries, Head(path), JObject(inner.entries))]
             ELSE [ok |-> FALSE, entries |-> entries]

----------------------------------------------------------------------------
(* merge_responses *)

AbsentData == [present |-> FALSE, object |-> FALSE, map |-> <<>>]

NullData == [present |-> TRUE, object |-> FALSE, map |-> <<>>]

ObjectData(entries) == [present |-> TRUE, object |-> TRUE, map |-> entries]

NoErrors == [some |-> FALSE, val |-> <<>>]

NoExtensions == [some |-> FALSE, val |-> ""]

\* serde_json::from_str::<Response>: valid is FALSE when the text does not parse
Response(data, errors, extensions) ==
    [valid |-> TRUE, data |-> data, errors |-> errors, extensions |-> extensions]

InvalidResponse ==
    [valid |-> FALSE, data |-> AbsentData, errors |-> NoErrors, extensions |-> NoExtensions]

PartialQuery(input, response) == [input |-> input, response |-> response]

PartialQueryExtensions(query, response_extensions) ==
    [query |-> query, response_extensions |-> response_extensions]

NoError == [kind |-> "none", path |-> <<>>, value |-> JNull, other |-> JNull]

\* Document::print, as the sequence of the tokens of the printed text
RECURSIVE PrintSelectionSet(_), PrintSelections(_, _)
PrintSelection(selection) ==
    (IF selection.kind = "Field"
     THEN <<selection.name>>
     ELSE IF selection.name = "" THEN <<"...">> ELSE <<"...", "on", selection.name>>)
    \o PrintSelectionSet(selection.selection_set)

PrintSelections(selection_set, i) ==
    IF i > Len(selection_set)
    THEN <<>>
    ELSE PrintSelection(selection_set[i]) \o PrintSelections(selection_set, i + 1)

PrintSelectionSet(selection_set) ==
    IF selection_set = <<>>
    THEN <<>>
    ELSE <<"{">> \o PrintSelections(selection_set, 1) \o <<"}">>

RECURSIVE PrintDefinitions(_, _)
PrintDefinitions(document, i) ==
    IF i > Len(document)
    THEN <<>>
    ELSE (IF document[i].name = "" THEN <<>> ELSE <<"query", document[i].name>>)
         \o PrintSelectionSet(document[i].selection_set)
         \o PrintDefinitions(document, i + 1)

\* GraphQLInput::query
query(document) == PrintDefinitions(document, 1)

\* the mutation of line 93: the errors of a part are put before the collected ones
PrependErrors(errors, err) == err \o errors

\* line 93: errors.extend(err)
ExtendErrors(errors, err) == errors \o err

\* lines 79-101: the loop over the parts
RECURSIVE CollectParts(_, _, _)
CollectParts(the_parts, i, acc) ==
    IF i > Len(the_parts) \/ ~ acc.ok
    THEN acc
    ELSE LET part == the_parts[i]
             response == part.response
         IN  IF ~ response.valid
             THEN [acc EXCEPT !.ok = FALSE]
             ELSE CollectParts(the_parts, i + 1,
                    [ok |-> TRUE,
                     some_data_exists |-> acc.some_data_exists \/ response.data.present,
                     all_data |-> IF response.data.present /\ response.data.object
                                  THEN Append(acc.all_data, response.data.map)
                                  ELSE acc.all_data,
                     errors |-> IF response.errors.some
                                THEN ExtendErrors(acc.errors, response.errors.val)
                                ELSE acc.errors,
                     partial_queries |->
                         Append(acc.partial_queries,
                                PartialQueryExtensions(query(part.input), response.extensions))])

IsScalarValue(v) == v.t \in {"bool", "number", "string"}

\* the mutation of lines 157-178: the first scalar is adopted and the later
\* ones are not compared with it
RECURSIVE AdoptFirstScalar(_, _, _, _)
AdoptFirstScalar(all_data, path, i, value) ==
    IF i > Len(all_data)
    THEN [conflict |-> FALSE, value |-> value, other |-> JNull]
    ELSE LET got == dot_get(all_data[i], path)
         IN  IF got.found /\ IsScalarValue(got.value)
             THEN [conflict |-> FALSE, value |-> got.value, other |-> JNull]
             ELSE AdoptFirstScalar(all_data, path, i + 1, value)

\* lines 157-178: the loop over all_data; [conflict, value, other]
RECURSIVE AdoptValue(_, _, _, _)
AdoptValue(all_data, path, i, value) ==
    IF i > Len(all_data)
    THEN [conflict |-> FALSE, value |-> value, other |-> JNull]
    ELSE LET got == dot_get(all_data[i], path)
         IN  IF ~ got.found \/ got.value.t \in {"null", "object", "array"}
             THEN AdoptValue(all_data, path, i + 1, value)
             ELSE IF value.t = "null"
                  THEN AdoptValue(all_data, path, i + 1, got.value)
                  ELSE IF IsScalarValue(value) /\ value # got.value
                       THEN [conflict |-> TRUE, value |-> value, other |-> got.value]
                       ELSE AdoptValue(all_data, path, i + 1, value)

\* MergeResponseVisitor::new
NewMergeResponseVisitor(all_data) ==
    [all_data |-> all_data, data |-> <<>>, path |-> <<>>, error |-> NoError]

\* MergeResponseVisitor::enter_field
merge_enter_field(st, field) ==
    LET path == Append(st.path, field.name)
        adopted == AdoptValue(st.all_data, path, 1, JNull)
        set == dot_set(st.data, path, adopted.value)
    IN  IF adopted.conflict
        THEN Flow([st EXCEPT !.path = path,
                             !.error = [kind |-> "conflict", path |-> path,
                                        value |-> adopted.value, other |-> adopted.other]],
                  "Break")
        ELSE IF set.ok
             THEN Flow([st EXCEPT !.path = path, !.data = set.entries], "Next")
             ELSE Flow([st EXCEPT !.path = path,
                                  !.error = [kind |-> "set", path |-> path,
                                             value |-> adopted.value, other |-> JNull]],
                       "Break")

\* MergeResponseVisitor::leave_field
merge_leave_field(st) == Flow([st EXCEPT !.path = Pop(@)], "Next")

\* input.document.visit(&(), &mut merge_visitor)
RECURSIVE MergeVisitSelections(_, _, _)
\* the leave callback of a field whose children returned r
MergeVisitLeave(r) ==
    IF r.flow = "Break" THEN r ELSE merge_leave_field(r.st)

\* the children of a field whose enter callback returned e
MergeVisitChildren(e, selection) ==
    IF e.flow # "Next"
    THEN e
    ELSE MergeVisitLeave(MergeVisitSelections(e.st, selection.selection_set, 1))

MergeVisitSelection(st, selection) ==
    IF selection.kind = "Field"
    THEN MergeVisitChildren(merge_enter_field(st, selection), selection)
    ELSE MergeVisitSelections(st, selection.selection_set, 1)

\* the selections after the i-th, which returned r
MergeVisitNextSelection(r, selection_set, i) ==
    IF r.flow = "Break"
    THEN r
    ELSE MergeVisitSelections(r.st, selection_set, i + 1)

MergeVisitSelections(st, selection_set, i) ==
    IF i > Len(selection_set)
    THEN Flow(st, "Next")
    ELSE MergeVisitNextSelection(MergeVisitSelection(st, selection_set[i]),
                                 selection_set, i)

RECURSIVE MergeVisitDefinitions(_, _, _)
\* the definitions after the d-th, which returned r
MergeVisitNextDefinition(r, document, d) ==
    IF r.flow = "Break"
    THEN r
    ELSE MergeVisitDefinitions(r.st, document, d + 1)

MergeVisitDefinitions(st, document, d) ==
    IF d > Len(document)
    THEN Flow(st, "Next")
    ELSE MergeVisitNextDefinition(MergeVisitSelections(st, document[d].selection_set, 1),
                                  document, d)

StellateResponse(data, errors, partial_queries) ==
    [ok |-> TRUE, error |-> NoError, data |-> data,
     errors |-> IF errors = <<>> THEN NoErrors ELSE [some |-> TRUE, val |-> errors],
     partial_queries |-> partial_queries]

MergeError(error) ==
    [ok |-> FALSE, error |-> error, data |-> AbsentData, errors |-> NoErrors,
     partial_queries |-> <<>>]

\* the mutation of lines 107-114: the data key is omitted whenever no partial
\* holds an object
DataOmitted(some_data_exists) == AbsentData

\* line 109: the data of the merged response when no partial holds an object
DataWithoutObject(some_data_exists) ==
    IF some_data_exists THEN NullData ELSE AbsentData

\* lines 122-130: the response built from the visitor after its pass
MergedData(visited, errors, partial_queries) ==
    IF visited.error.kind # "none"
    THEN MergeError(visited.error)
    ELSE StellateResponse(ObjectData(visited.data), errors, partial_queries)

merge_responses(document, the_parts) ==
    LET collected == CollectParts(the_parts, 1,
                        [ok |-> TRUE, some_data_exists |-> FALSE, all_data |-> <<>>,
                         errors |-> <<>>, partial_queries |-> <<>>])
    IN  IF ~ collected.ok
        THEN MergeError([NoError EXCEPT !.kind = "parse"])
        ELSE IF Len(collected.all_data) = 0
        THEN StellateResponse(DataWithoutObject(collected.some_data_exists),
                              collected.errors, collected.partial_queries)
        ELSE MergedData(MergeVisitDefinitions(
                            NewMergeResponseVisitor(collected.all_data), document, 1).st,
                        collected.errors, collected.partial_queries)

----------------------------------------------------------------------------
(* The requests: documents of at most MaxNodes selections that the schema  *)
(* accepts, two documents of the test suite, and one the schema rejects.   *)

ScalarFieldsOf(type) == { f \in DOMAIN SchemaFields[type] : SchemaFields[type][f] \notin ObjectTypes }

ObjectFieldsOf(type) == { f \in DOMAIN SchemaFields[type] : SchemaFields[type][f] \in ObjectTypes }

RECURSIVE SelectionSetsOfSize(_, _)
SelectionsOfSize(type, k) ==
    IF k = 1
    THEN { Field(f, <<>>) : f \in ScalarFieldsOf(type) }
    ELSE UNION { { Field(f, ss) : ss \in SelectionSetsOfSize(FieldType(type, f), k - 1) } :
                    f \in ObjectFieldsOf(type) }
         \cup (IF type = RootType
               THEN { InlineFragment(type, ss) : ss \in SelectionSetsOfSize(type, k - 1) }
               ELSE {})

SelectionSetsOfSize(type, n) ==
    IF n = 0
    THEN { <<>> }
    ELSE UNION { { <<s>> \o rest : s \in SelectionsOfSize(type, k),
                                   rest \in SelectionSetsOfSize(type, n - k) } :
                    k \in 1..n }

Query(selection_set) == <<OperationDefinition("", selection_set)>>

Leaf(name) == Field(name, <<>>)

\* split/mod.rs tests::combined, without the zeroMaxAge fields
CombinedDocument ==
    Query(<<Leaf("highMaxAge"), Leaf("lowMaxAge"), Leaf("noMaxAge"),
            Field("nested", <<Leaf("highMaxAge"), Leaf("lowMaxAge"), Leaf("noMaxAge")>>)>>)

\* split/mod.rs tests::multiple_operations, operation B
TypenameDocument == Query(<<Leaf("__typename")>>)

\* a field that the root type does not define
MismatchDocument == Query(<<Leaf("lowMaxAge"), Leaf("text")>>)

\* a max-age that reaches a selection set from its parent, and one that
\* reaches it from a selection set visited before it
InheritDocuments ==
    { Query(<<Leaf("highMaxAge"), Field("nested", <<Leaf("lowMaxAge"), Leaf("noMaxAge")>>)>>),
      Query(<<Field("nested", <<Leaf("highMaxAge")>>),
              Field("nested", <<Leaf("lowMaxAge"), Leaf("noMaxAge")>>)>>),
      Query(<<Field("todo", <<Leaf("text"), Leaf("done"),
                              InlineFragment("Todo", <<Leaf("text")>>)>>),
              Leaf("lowMaxAge")>>) }

Documents ==
    { Query(ss) : ss \in UNION { SelectionSetsOfSize(RootType, n) : n \in 1..MaxNodes } }
    \cup {CombinedDocument, TypenameDocument, MismatchDocument}
    \cup InheritDocuments

\* input.operation_name
operation_name == ""

\* the names of the fragments a request defines
FragmentNameSeq == SubSeq(<<"A", "B", "C", "D">>, 1, MaxFragments)

FragmentNames == { FragmentNameSeq[i] : i \in 1..MaxFragments }

\* a request may spread a fragment it does not define
SpreadNames == FragmentNames \cup {"Missing"}

FragmentBodies ==
    { <<Leaf("lowMaxAge")>> }
    \cup { <<Leaf("highMaxAge"), FragmentSpread(n)>> : n \in FragmentNames }
    \cup { <<Field("nested", <<FragmentSpread(n)>>)>> : n \in SpreadNames }

OperationBodies ==
    { <<FragmentSpread(n)>> : n \in SpreadNames }
    \cup { <<FragmentSpread(n), Leaf("lowMaxAge"), FragmentSpread(o)>> : n, o \in FragmentNames }
    \cup { <<Field("nested", <<FragmentSpread(n)>>), Field("nested", <<FragmentSpread("Missing")>>)>> :
             n \in FragmentNames }

\* the fragment definitions of a request, in the order of their names
FragmentDefinitions(bodies) ==
    [i \in 1..MaxFragments |->
        FragmentDefinition(FragmentNameSeq[i], RootType, bodies[FragmentNameSeq[i]])]

\* a second operation of the request, which is not the target
OtherOperation == OperationDefinition("Other", <<Leaf("highMaxAge"), FragmentSpread("A")>>)

\* inline_fragments.rs tests: the operation before and after its fragments;
\* split/mod.rs tests::multiple_operations: a second operation
RawDocuments ==
    { Query(body) \o FragmentDefinitions(bodies) :
        body \in OperationBodies, bodies \in [FragmentNames -> FragmentBodies] }
    \cup UNION { { FragmentDefinitions(bodies) \o Query(<<FragmentSpread(n)>>),
                   <<OtherOperation>> \o FragmentDefinitions(bodies)
                        \o Query(<<FragmentSpread(n)>>) } :
                 n \in SpreadNames, bodies \in [FragmentNames -> FragmentBodies] }

\* the documents without spreads and the documents with fragments
Requests == Documents \cup RawDocuments

----------------------------------------------------------------------------
(* split(): the work-list loop *)

DocumentSplit(document, max_age) == [document |-> document, max_age |-> max_age]

NoSplit == [document_split |-> DocumentSplit(<<>>, None), result |-> NoResult]

NoMerged == MergeError(NoError)

\* The orders in which a hash map over the keys can be iterated
Orders(keys) ==
    { order \in [1..Cardinality(keys) -> keys] :
        \A i, j \in 1..Cardinality(keys) : i # j => order[i] # order[j] }

NoInline == FoldOk(<<>>)

\* no fold was made
NoFold == [folder |-> "None", path |-> <<>>, selection_set |-> <<>>, result |-> FoldOk(<<>>)]

Init ==
    /\ pc = "receive"
    /\ source = <<>>
    /\ parsed = NoParse
    /\ request_document = <<>>
    /\ inlined = NoInline
    /\ input_document = <<>>
    /\ manifest = ManifestFields
    /\ documents_to_split = <<>>
    /\ document_splits = <<>>
    /\ last_split = NoSplit
    /\ iterations = 0
    /\ parts = <<>>
    /\ merged = NoMerged
    /\ folding = NoFold

\* handle_with_error lines 53-70 and split lines 30-37: the request brings the
\* document and the manifest; split inlines the fragments of the document in
\* place and, if that succeeds, starts the work list with the whole document
\* under no max-age. An error is returned; a recursion without end is a crash.
Receive ==
    /\ pc = "receive"
    /\ request_document' \in Requests
    /\ manifest' \in Manifests
    /\ inlined' = inline_fragments(request_document', operation_name)
    /\ input_document' = DocumentAfter(request_document', inlined')
    /\ documents_to_split' = IF inlined'.kind = "Ok"
                             THEN <<DocumentSplit(input_document', None)>>
                             ELSE <<>>
    /\ pc' = CASE inlined'.kind = "Ok" -> "split"
              [] inlined'.kind = "Overflow" -> "overflow"
              [] OTHER -> "error"
    /\ UNCHANGED <<folding, source, parsed, document_splits, last_split, iterations, parts, merged>>

\* the state of one loop iteration after the pop and the visitor pass
Popped == Last(documents_to_split)

PoppedResult == SplitterResult(manifest, operation_name, Popped.document)

LoopIteration ==
    /\ pc = "split"
    /\ documents_to_split # <<>>
    /\ iterations < MaxIterations
    /\ iterations' = iterations + 1
    /\ last_split' = [document_split |-> Popped, result |-> PoppedResult]
    /\ UNCHANGED <<folding, source, parsed, request_document, inlined, input_document, manifest, parts, merged>>

\* lines 64-66: the document cannot be split and its key is new
SplitDeposit ==
    /\ LoopIteration
    /\ last_split'.result.kind = "None"
    /\ Popped.max_age \notin DOMAIN document_splits
    /\ document_splits' =
          [k \in DOMAIN document_splits \cup {Popped.max_age} |->
              IF k = Popped.max_age THEN Popped.document ELSE document_splits[k]]
    /\ documents_to_split' = Pop(documents_to_split)
    /\ pc' = pc

\* lines 51-63: the document cannot be split and its key holds a document
SplitMergeDeposit ==
    /\ LoopIteration
    /\ last_split'.result.kind = "None"
    /\ Popped.max_age \in DOMAIN document_splits
    /\ document_splits' =
          [document_splits EXCEPT ![Popped.max_age] =
              merge_documents(@, Popped.document, operation_name)]
    /\ documents_to_split' = Pop(documents_to_split)
    /\ pc' = pc

\* lines 72-84: the remainder and then the extracted groups, in the given order
PushedSplits(document, result, order) ==
    <<DocumentSplit(FoldReplacer(document, result.path, result.selection_set),
                    result.max_age)>>
    \o [i \in 1..Len(order) |->
          DocumentSplit(FoldExtractor(document, result.path, result.splits[order[i]]).node,
                        Some(order[i]))]

\* lines 72-84: a split record; the extracted groups are pushed in hash-map order
SplitRecord ==
    /\ LoopIteration
    /\ last_split'.result.kind = "Ok"
    /\ \E order \in Orders(DOMAIN last_split'.result.splits) :
          documents_to_split' =
              Pop(documents_to_split)
              \o PushedSplits(Popped.document, last_split'.result, order)
    /\ UNCHANGED document_splits
    /\ pc' = pc

\* line 47: the visitor failed
SplitFail ==
    /\ LoopIteration
    /\ last_split'.result.kind = "Err"
    /\ pc' = "error"
    /\ UNCHANGED <<documents_to_split, document_splits>>

\* line 87: the work list is empty
SplitReturn ==
    /\ pc = "split"
    /\ documents_to_split = <<>>
    /\ pc' = "send"
    /\ UNCHANGED <<folding, source, parsed, request_document, inlined, input_document, manifest,
                   documents_to_split, document_splits,
                   last_split, iterations, parts, merged>>

----------------------------------------------------------------------------
(* The origin of handle_with_error, as a mock that answers a query with    *)
(* the object its selections ask for                                       *)

MockValue(type, name) ==
    CASE name = "lowMaxAge" -> JNumber(100)
      [] name = "highMaxAge" -> JNumber(200)
      [] name = "noMaxAge" -> JNull
      [] name = "id" -> JString("42")
      [] name = "text" -> JString("Get milk")
      [] name = "done" -> JBool(TRUE)
      [] OTHER -> JString(type)

\* the fields of a selection set, inline fragments flattened
RECURSIVE CollectFields(_)
CollectFields(selection_set) ==
    IF selection_set = <<>>
    THEN <<>>
    ELSE (IF Head(selection_set).kind = "Field"
          THEN <<Head(selection_set)>>
          ELSE CollectFields(Head(selection_set).selection_set))
         \o CollectFields(Tail(selection_set))

RECURSIVE SubSelections(_, _)
SubSelections(fields, name) ==
    IF fields = <<>>
    THEN <<>>
    ELSE (IF Head(fields).name = name THEN Head(fields).selection_set ELSE <<>>)
         \o SubSelections(Tail(fields), name)

RECURSIVE MockObject(_, _), MockEntries(_, _, _, _)
MockEntries(type, fields, i, acc) ==
    IF i > Len(fields)
    THEN acc
    ELSE IF fields[i].name \in Keys(acc)
    THEN MockEntries(type, fields, i + 1, acc)
    ELSE LET name == fields[i].name
             value == IF HasField(type, name) /\ FieldType(type, name) \in ObjectTypes
                      THEN JObject(MockObject(FieldType(type, name),
                                              SubSelections(fields, name)))
                      ELSE MockValue(type, name)
         IN  MockEntries(type, fields, i + 1, Append(acc, Entry(name, value)))

MockObject(type, selection_set) ==
    MockEntries(type, CollectFields(selection_set), 1, <<>>)

\* request::send answered by the mock origin
MockResponse(document) ==
    LET d == OperationIndex(document, operation_name)
    IN  Response(ObjectData(MockObject(RootType, document[d].selection_set)),
                 NoErrors, NoExtensions)

\* handle_with_error lines 73-95: one partial query per split, in hash-map order
Send ==
    /\ pc = "send"
    /\ \E order \in Orders(DOMAIN document_splits) :
          parts' = [i \in 1..Len(order) |->
                      PartialQuery(document_splits[order[i]],
                                   MockResponse(document_splits[order[i]]))]
    /\ pc' = "merge"
    /\ UNCHANGED <<folding, source, parsed, request_document, inlined, input_document, manifest,
                   documents_to_split, document_splits,
                   last_split, iterations, merged>>

\* handle_with_error line 97
MergeResponses ==
    /\ pc = "merge"
    /\ merged' = merge_responses(input_document, parts)
    /\ pc' = "done"
    /\ UNCHANGED <<folding, source, parsed, request_document, inlined, input_document, manifest,
                   documents_to_split, document_splits,
                   last_split, iterations, parts>>

Next ==
    \/ Receive
    \/ SplitDeposit
    \/ SplitMergeDeposit
    \/ SplitRecord
    \/ SplitFail
    \/ SplitReturn
    \/ Send
    \/ MergeResponses

Spec == Init /\ [][Next]_vars

\* one iteration of the work loop of split, or its return
SplitStep ==
    \/ SplitDeposit
    \/ SplitMergeDeposit
    \/ SplitRecord
    \/ SplitFail
    \/ SplitReturn

\* the states in which a step of split can be taken: every such step changes
\* pc or iterations, so this is ENABLED <<SplitStep>>_vars
SplitStepEnabled ==
    /\ pc = "split"
    /\ (documents_to_split = <<>> \/ iterations < MaxIterations)

\* split() is sequential code: once called it keeps taking its steps. This is
\* WF_vars(SplitStep) with its ENABLED written as the state predicate above.
FairSpec == Spec /\ ([]<>(~ SplitStepEnabled) \/ []<><<SplitStep>>_vars)

----------------------------------------------------------------------------
(* merge_responses on arbitrary partial responses *)

MaxParts == 2

Nested(selection_set) == Field("nested", selection_set)

MergeDocuments ==
    { Query(<<Leaf("lowMaxAge")>>),
      Query(<<Leaf("lowMaxAge"), Nested(<<Leaf("lowMaxAge")>>)>>),
      Query(<<Nested(<<Leaf("lowMaxAge")>>), Leaf("lowMaxAge")>>),
      Query(<<Leaf("lowMaxAge"), InlineFragment("Query", <<Leaf("lowMaxAge")>>)>>),
      Query(<<Nested(<<Leaf("lowMaxAge")>>),
              InlineFragment("Query", <<Nested(<<Leaf("highMaxAge")>>)>>)>>),
      Query(<<Nested(<<Nested(<<Leaf("lowMaxAge")>>)>>)>>),
      Query(<<Nested(<<Leaf("lowMaxAge"), Leaf("highMaxAge")>>),
              Nested(<<Leaf("highMaxAge"), Leaf("lowMaxAge")>>)>>) }

LeafValues == {JNull, JNumber(1), JNumber(2)}

NestedValues ==
    { JObject(<<Entry("lowMaxAge", v)>>) : v \in {JNumber(1), JNumber(2)} }
    \cup {JNumber(1), JArray(<<JNumber(1)>>),
          JObject(<<Entry("nested", JObject(<<Entry("lowMaxAge", JNumber(1))>>))>>)}

DataMaps ==
    { <<>> }
    \cup { <<Entry("lowMaxAge", v)>> : v \in LeafValues }
    \cup { <<Entry("nested", w)>> : w \in NestedValues }
    \cup { <<Entry("lowMaxAge", v), Entry("nested", w)>> : v \in LeafValues, w \in NestedValues }

\* responses with several errors, with an empty errors array and with extensions
ErrorResponses ==
    { Response(AbsentData, [some |-> TRUE, val |-> <<"first", "second">>],
               [some |-> TRUE, val |-> "responseA"]),
      Response(ObjectData(<<Entry("lowMaxAge", JNumber(1))>>), [some |-> TRUE, val |-> <<>>],
               NoExtensions),
      Response(NullData, [some |-> TRUE, val |-> <<"third">>],
               [some |-> TRUE, val |-> "responseB"]) }

Responses ==
    { Response(ObjectData(map), NoErrors, NoExtensions) : map \in DataMaps }
    \cup { Response(AbsentData, NoErrors, NoExtensions),
           Response(AbsentData, [some |-> TRUE, val |-> <<"oopsie">>], NoExtensions),
           Response(NullData, NoErrors, NoExtensions),
           Response(NullData, [some |-> TRUE, val |-> <<"doopsie">>],
                    [some |-> TRUE, val |-> "trace"]),
           InvalidResponse }

Parts ==
    { PartialQuery(TypenameDocument, r) : r \in Responses }
    \cup { PartialQuery(Query(<<Leaf("lowMaxAge")>>), r) : r \in ErrorResponses }

PartLists == UNION { [1..n -> Parts] : n \in 0..MaxParts }

InitMerge ==
    /\ pc = "merge"
    /\ source = <<>>
    /\ parsed = NoParse
    /\ input_document \in MergeDocuments
    /\ request_document = input_document
    /\ inlined = FoldOk(input_document)
    /\ manifest = ManifestFields
    /\ documents_to_split = <<>>
    /\ document_splits = <<>>
    /\ last_split = NoSplit
    /\ iterations = 0
    /\ parts \in PartLists
    /\ merged = NoMerged
    /\ folding = NoFold

NextMerge == MergeResponses

SpecMerge == InitMerge /\ [][NextMerge]_vars

----------------------------------------------------------------------------
(* Document::parse on query texts *)

\* the tokens a text is written with
Tokens == {"fragment", "on", "X", "a", "{", "}", "..."}

\* the selection sets that follow the head of a fragment definition
SourceBodies ==
    { <<"{", "a", "}">>, <<"{", "a", "{", "a", "}", "}">>, <<"{", "...", "X", "}">>,
      <<"{", "...", "on", "X", "{", "a", "}", "}">>, <<"{", "...", "on", "}">>,
      <<"{", "...", "{", "a", "}", "a", "}">>, <<"{", "}">>, <<"{", "a">>, <<"a">>, <<>> }

\* the texts in front of and behind a fragment definition
SourceOperations ==
    { <<>>, <<"{", "a", "}">>, <<"query", "X", "{", "...", "X", "}">>, <<"query", "X">> }

\* texts shaped like a fragment definition, every token of its head drawn
\* from all tokens, alone or beside an operation
Sources ==
    { front \o head \o body \o back :
        head \in [1..4 -> Tokens], body \in SourceBodies,
        front \in SourceOperations, back \in {<<>>, <<"{", "a", "}">>} }

InitParse ==
    /\ pc = "parse"
    /\ source \in Sources
    /\ parsed = NoParse
    /\ request_document = <<>>
    /\ inlined = NoInline
    /\ input_document = <<>>
    /\ manifest = ManifestFields
    /\ documents_to_split = <<>>
    /\ document_splits = <<>>
    /\ last_split = NoSplit
    /\ iterations = 0
    /\ parts = <<>>
    /\ merged = NoMerged
    /\ folding = NoFold

\* graphql.rs GraphQLInput::new: the query text is parsed
ParseRequest ==
    /\ pc = "parse"
    /\ parsed' = ParseDocument(source)
    /\ pc' = IF parsed'.ok THEN "parsed" ELSE "rejected"
    /\ UNCHANGED <<folding, source, request_document, inlined, input_document, manifest,
                   documents_to_split, document_splits, last_split, iterations,
                   parts, merged>>

NextParse == ParseRequest

SpecParse == InitParse /\ [][NextParse]_vars

----------------------------------------------------------------------------
(* SelectionSetReplacer and SelectionSetExtractor on documents and paths   *)
(* of any shape, as selection_set_replacer.rs and selection_set_extractor.rs *)
(* tests fold them                                                          *)

MaxFoldNodes == 3

MaxFoldIndex == 2

\* documents of one operation, and documents of two
FoldDocuments ==
    { Query(ss) : ss \in UNION { SelectionSetsOfSize(RootType, n) : n \in 1..MaxFoldNodes } }
    \cup { <<OperationDefinition("", first), OperationDefinition("Other", second)>> :
             first \in SelectionSetsOfSize(RootType, MaxFoldNodes - 1),
             second \in { <<Leaf("lowMaxAge")>>,
                          <<Field("nested", <<Leaf("highMaxAge")>>), Leaf("noMaxAge")>>,
                          <<Field("todo", <<Leaf("id"), Leaf("text")>>)>> } }

\* the paths of definitions, of selection sets and of selections, down to
\* the selection sets of the second level
FoldPaths ==
    LET Definitions == { <<Index(d)>> : d \in 0..1 }
        Below(paths) == { p \o <<SelectionSetSeg>> : p \in paths }
        Children(paths) == { p \o <<Index(i)>> : p \in paths, i \in 0..MaxFoldIndex }
        Operations == Below(Definitions)
        First == Children(Operations)
        Second == Children(Below(First))
    IN  Definitions \cup Operations \cup First \cup Below(First)
        \cup Second \cup Below(Second)

\* the selection sets handed to the folders
FoldSelectionSets == { <<Leaf("id")>>, <<Leaf("text"), Leaf("done")>> }

Folded(folder, path, selection_set, result) ==
    [folder |-> folder, path |-> path, selection_set |-> selection_set, result |-> result]

\* the outcome of the extractor fold: the document, or the error of line 59
ExtractorResult(extracted) ==
    IF extracted.ok THEN FoldOk(extracted.node) ELSE FoldErr("NoSelection", "")

InitFold ==
    /\ pc = "fold"
    /\ source = <<>>
    /\ parsed = NoParse
    /\ request_document \in FoldDocuments
    /\ inlined = NoInline
    /\ input_document = <<>>
    /\ manifest = ManifestFields
    /\ documents_to_split = <<>>
    /\ document_splits = <<>>
    /\ last_split = NoSplit
    /\ iterations = 0
    /\ parts = <<>>
    /\ merged = NoMerged
    /\ folding = NoFold

\* document.fold(&ctx, &mut SelectionSetReplacer::new(path, selection_set))
FoldWithReplacer ==
    /\ pc = "fold"
    /\ \E path \in FoldPaths, selection_set \in FoldSelectionSets :
          folding' = Folded("Replacer", path, selection_set,
                           FoldOk(FoldReplacer(request_document, path, selection_set)))
    /\ pc' = "folded"
    /\ UNCHANGED <<source, parsed, request_document, inlined, input_document, manifest,
                   documents_to_split, document_splits, last_split, iterations,
                   parts, merged>>

\* document.fold(&ctx, &mut SelectionSetExtractor::new(path, selection_set))
FoldWithExtractor ==
    /\ pc = "fold"
    /\ \E path \in FoldPaths, selection_set \in FoldSelectionSets :
          folding' = Folded("Extractor", path, selection_set,
                           ExtractorResult(FoldExtractor(request_document, path,
                                                         selection_set)))
    /\ pc' = "folded"
    /\ UNCHANGED <<source, parsed, request_document, inlined, input_document, manifest,
                   documents_to_split, document_splits, last_split, iterations,
                   parts, merged>>

NextFold ==
    \/ FoldWithReplacer
    \/ FoldWithExtractor

SpecFold == InitFold /\ [][NextFold]_vars

----------------------------------------------------------------------------
(* Document::fold_operation with a folder that changes nothing, and the    *)
(* validation rule NoFragmentCycles, on documents of fragments              *)

\* FolderContext: the definitions collected so far, the names of the fragments folded
FolderContext(definitions, fragment_names) ==
    [kind |-> "Ok", definitions |-> definitions, fragment_names |-> fragment_names, name |-> ""]

\* folder.rs line 621: the spread names no fragment of the document
FolderError(name) ==
    [kind |-> "Err", definitions |-> <<>>, fragment_names |-> {}, name |-> name]

\* a fragment that is folded again while it is folded: the recursion has no end
FolderOverflow ==
    [kind |-> "Overflow", definitions |-> <<>>, fragment_names |-> {}, name |-> ""]

\* lines 614-618: the folded fragment is prepended and its name recorded
FragmentFolded(fragment, ctx) ==
    IF ctx.kind # "Ok"
    THEN ctx
    ELSE FolderContext(<<fragment>> \o ctx.definitions,
                       ctx.fragment_names \cup {fragment.name})

RECURSIVE FoldSelections(_, _, _, _, _)
\* FoldNode for FragmentSpread with ctx.recurse, lines 601-625
FoldFragmentSpread(fragment_map, spread, ctx, stack) ==
    IF spread.name \in ctx.fragment_names
    THEN ctx
    ELSE IF spread.name \notin DOMAIN fragment_map
    THEN FolderError(spread.name)
    ELSE IF spread.name \in stack
    THEN FolderOverflow
    ELSE FragmentFolded(fragment_map[spread.name],
                        FoldSelections(fragment_map, fragment_map[spread.name].selection_set,
                                       1, ctx, stack \cup {spread.name}))

\* FoldNode for Field, InlineFragment and FragmentSpread: the fold of one selection
FoldSelection(fragment_map, selection, ctx, stack) ==
    IF selection.kind = "FragmentSpread"
    THEN FoldFragmentSpread(fragment_map, selection, ctx, stack)
    ELSE FoldSelections(fragment_map, selection.selection_set, 1, ctx, stack)

\* FoldNode for SelectionSet, lines 688-716: the selections from the i-th on
FoldSelections(fragment_map, selection_set, i, ctx, stack) ==
    IF ctx.kind # "Ok" \/ i > Len(selection_set)
    THEN ctx
    ELSE FoldSelections(fragment_map, selection_set, i + 1,
                        FoldSelection(fragment_map, selection_set[i], ctx, stack), stack)

\* lines 845-852: the operation is prepended to the definitions collected
OperationFolded(operation, ctx) ==
    IF ctx.kind = "Ok"
    THEN FoldOk(<<operation>> \o ctx.definitions)
    ELSE IF ctx.kind = "Err" THEN FoldErr("Err", ctx.name) ELSE FoldOverflow

\* document.fold_operation(&ctx, operation_name, &mut FoldNoop::default())
FoldNoop(document, op_name) ==
    IF FirstOperation(document, op_name) = 0
    THEN FoldErr("NoOperation", op_name)
    ELSE OperationFolded(document[FirstOperation(document, op_name)],
                         FoldSelections(fragments(document),
                                        document[FirstOperation(document, op_name)].selection_set,
                                        1, FolderContext(<<>>, {}), {}))

\* the names of the fragments a selection set spreads, as enter_fragment_spread
\* collects them in used_fragments
RECURSIVE used_fragments(_)
used_fragments(selection_set) ==
    UNION { IF selection_set[i].kind = "FragmentSpread"
            THEN {selection_set[i].name}
            ELSE used_fragments(selection_set[i].selection_set) :
            i \in 1..Len(selection_set) }

\* no_fragment_cycles.rs lines 27-48: the spreads of every fragment definition,
\* by its name; operations are skipped
fragment_edges(document) ==
    [name \in { document[d].name :
                  d \in { e \in 1..Len(document) : document[e].kind = "Fragment" } } |->
        used_fragments(fragments(document)[name].selection_set)]

Edge(found, visited) == [found |-> found, visited |-> visited]

\* contains_edge, lines 105-129. The edges of a fragment are a hash set, so
\* every order of the loop of line 119 is taken: the outcomes are the pairs of
\* the value returned and the names visited
RECURSIVE contains_edge(_, _, _, _)
RECURSIVE EdgesLoop(_, _, _, _)
\* one step of the loop of lines 119-123, after the call for a name returned
EdgesNext(outcome, toplevel_name, remaining, edges) ==
    IF outcome.found
    THEN {outcome}
    ELSE EdgesLoop(outcome.visited, toplevel_name, remaining, edges)

EdgesLoop(visited, toplevel_name, remaining, edges) ==
    IF remaining = {}
    THEN {Edge(FALSE, visited)}
    ELSE UNION { UNION { EdgesNext(outcome, toplevel_name, remaining \ {next_name}, edges) :
                           outcome \in contains_edge(visited, toplevel_name, next_name, edges) } :
                   next_name \in remaining }

contains_edge(visited, toplevel_name, current_name, edges) ==
    IF current_name \in visited
    THEN {Edge(TRUE, visited)}
    ELSE IF current_name \notin DOMAIN edges
    THEN {Edge(FALSE, visited)}
    ELSE IF toplevel_name \in edges[current_name]
    THEN {Edge(TRUE, visited \cup {current_name})}
    ELSE EdgesLoop(visited \cup {current_name}, toplevel_name, edges[current_name], edges)

\* the values contains_edge may return for a fragment taken as top level
ReportedFor(name, edges) == { outcome.found : outcome \in contains_edge({}, name, name, edges) }

\* leave_document, lines 60-75: the outcomes of the rule, "Error" when the call
\* for some fragment returned true, "Valid" when the call for every one returned false
leave_document(edges) ==
    { "Error" : name \in { n \in DOMAIN edges : TRUE \in ReportedFor(n, edges) } }
    \cup (IF \A name \in DOMAIN edges : FALSE \in ReportedFor(name, edges)
          THEN {"Valid"} ELSE {})

\* NoFragmentCycles::validate(&ctx, document)
NoFragmentCycles(document) == leave_document(fragment_edges(document))

MaxCycleFragments == 3

CycleNameSeq == SubSeq(<<"A", "B", "C", "D">>, 1, MaxCycleFragments)

CycleNames == { CycleNameSeq[i] : i \in 1..MaxCycleFragments }

\* the fragment bodies: a field, and up to two spreads, the second below a field
CycleBodies ==
    { <<Leaf("lowMaxAge")>> }
    \cup { <<Leaf("lowMaxAge"), FragmentSpread(n)>> : n \in CycleNames \cup {"Missing"} }
    \cup { <<FragmentSpread(pair[1]), Field("nested", <<FragmentSpread(pair[2])>>)>> :
             pair \in { names \in CycleNames \X CycleNames : names[1] # names[2] } }

\* the selection sets of the operation
CycleOperationBodies ==
    { <<FragmentSpread(n)>> : n \in CycleNames \cup {"Missing"} }
    \cup { <<Field("nested", <<FragmentSpread("A")>>), FragmentSpread("B")>> }

\* the documents: an operation, named as the request names it or not, and
\* one definition for every fragment name
CycleDocuments ==
    { <<OperationDefinition(name, body)>>
      \o [i \in 1..MaxCycleFragments |->
            FragmentDefinition(CycleNameSeq[i], RootType, bodies[CycleNameSeq[i]])] :
        name \in {operation_name, "Other"}, body \in CycleOperationBodies,
        bodies \in [CycleNames -> CycleBodies] }

InitFragments ==
    /\ pc = "fragments"
    /\ source = <<>>
    /\ parsed = NoParse
    /\ request_document \in CycleDocuments
    /\ inlined = NoInline
    /\ input_document = <<>>
    /\ manifest = ManifestFields
    /\ documents_to_split = <<>>
    /\ document_splits = <<>>
    /\ last_split = NoSplit
    /\ iterations = 0
    /\ parts = <<>>
    /\ merged = NoMerged
    /\ folding = NoFold

\* document.fold_operation(&ctx, operation_name, &mut FoldNoop::default())
FoldOperation ==
    /\ pc = "fragments"
    /\ folding' = Folded("FoldNoop", <<>>, <<>>, FoldNoop(request_document, operation_name))
    /\ pc' = "folded"
    /\ UNCHANGED <<source, parsed, request_document, inlined, input_document, manifest,
                   documents_to_split, document_splits, last_split, iterations,
                   parts, merged>>

\* NoFragmentCycles::validate(&ctx, document)
ValidateFragmentCycles ==
    /\ pc = "fragments"
    /\ \E outcome \in NoFragmentCycles(request_document) :
          folding' = Folded("NoFragmentCycles", <<>>, <<>>, FoldErr(outcome, ""))
    /\ pc' = "validated"
    /\ UNCHANGED <<source, parsed, request_document, inlined, input_document, manifest,
                   documents_to_split, document_splits, last_split, iterations,
                   parts, merged>>

NextFragments ==
    \/ FoldOperation
    \/ ValidateFragmentCycles

SpecFragments == InitFragments /\ [][NextFragments]_vars

----------------------------------------------------------------------------
(* Properties *)

\* the documents split() returns, once it has returned
Returned == pc \in {"send", "merge", "done"}

SplitKeys == DOMAIN document_splits

\* the selections of the target operation of a document
OperationSelections(document) ==
    document[OperationIndex(document, operation_name)].selection_set

\* The field occurrences of a selection set: the path of field names from the
\* root, the parent type, the policy of the field (its configured field
\* max-age, otherwise the minimum of the type max-ages on its type chain),
\* whether it is a key field of its parent type, and whether it has selections.
RECURSIVE FieldOccurrences(_, _, _, _, _)
FieldOccurrences(m, type, selection_set, inherited, prefix) ==
    LET chain == min(inherited, type_max_age(m, type))
        Of(selection) ==
            IF selection.kind = "Field"
            THEN {[path |-> Append(prefix, selection.name),
                   parent |-> type,
                   policy |-> OptOr(field_max_age(m, type, selection.name), chain),
                   key |-> selection.name \in key_field_names(m, type),
                   leaf |-> selection.selection_set = <<>>]}
                 \cup (IF HasField(type, selection.name)
                       THEN FieldOccurrences(m, FieldType(type, selection.name),
                                             selection.selection_set, chain,
                                             Append(prefix, selection.name))
                       ELSE {})
            ELSE FieldOccurrences(m, IF selection.name = "" THEN type ELSE selection.name,
                                  selection.selection_set, chain, prefix)
    IN  UNION { Of(selection_set[i]) : i \in 1..Len(selection_set) }

Occurrences(document) ==
    FieldOccurrences(manifest, RootType, OperationSelections(document), None, <<>>)

\* C3: every sub-document returned under Some(m) holds only fields whose policy
\* is m: each non-key field of it that has a policy has the max-age m.
C3_SubDocumentMatchesItsKey ==
    Returned =>
        \A k \in SplitKeys :
            k.some =>
                \A o \in Occurrences(document_splits[k]) :
                    (~ o.key /\ o.policy.some) => o.policy = k

\* C4: a sub-document is returned under None only if none of its fields has a
\* max-age policy on its type and field chain.
C4_NoneKeyHasNoPolicy ==
    (Returned /\ None \in SplitKeys) =>
        \A o \in Occurrences(document_splits[None]) : ~ o.policy.some

\* the selection set and its parent type reached from a selection set by the
\* indices of a path
RECURSIVE DescendTo(_, _, _)
DescendTo(selection_set, type, indices) ==
    IF indices = <<>>
    THEN [selection_set |-> selection_set, type |-> type]
    ELSE LET selection == selection_set[Head(indices) + 1]
         IN  DescendTo(selection.selection_set,
                       IF selection.kind = "Field"
                       THEN FieldType(type, selection.name)
                       ELSE IF selection.name = "" THEN type ELSE selection.name,
                       Tail(indices))

SiteOf(document, path) ==
    DescendTo(document[Head(path).i + 1].selection_set, RootType,
              SelectionIndices(Tail(path)))

InSeq(x, seq) == \E i \in 1..Len(seq) : seq[i] = x

\* the key fields of its parent type that a selection set selects
SelectedKeyFields(site) ==
    { site.selection_set[i] : i \in
        { j \in 1..Len(site.selection_set) :
            /\ site.selection_set[j].kind = "Field"
            /\ site.selection_set[j].name \in key_field_names(manifest, site.type) } }

\* the path of a split site in an extracted document, which keeps one
\* selection per level above the site
ExtractedPath(path) ==
    <<Head(path)>> \o [i \in 1..(Len(path) - 1) |->
                          IF path[i + 1].seg = "Index" THEN Index(0) ELSE path[i + 1]]

\* the work items a split record has just pushed: the remainder, then one
\* document per extracted max-age
PushedRemainder ==
    documents_to_split[Len(documents_to_split)
                       - Cardinality(DOMAIN last_split.result.splits)]

PushedExtracts ==
    { documents_to_split[i] : i \in
        (Len(documents_to_split) - Cardinality(DOMAIN last_split.result.splits) + 1)
            ..Len(documents_to_split) }

\* C7: when the splitter emits a split record for a selection set, every key
\* field of the parent type that the selection set selects is in the remainder
\* selection set and in every extracted selection set, and every document pushed
\* for the record selects it at the split path.
C7_KeyFieldsReplicated ==
    last_split.result.kind = "Ok" =>
        LET record == last_split.result
            site == SiteOf(last_split.document_split.document, record.path)
        IN  \A key_field \in SelectedKeyFields(site) :
                /\ InSeq(key_field, record.selection_set)
                /\ \A age \in DOMAIN record.splits : InSeq(key_field, record.splits[age])
                /\ InSeq(key_field,
                         SiteOf(PushedRemainder.document, record.path).selection_set)
                /\ \A pushed \in PushedExtracts :
                       InSeq(key_field,
                             SiteOf(pushed.document, ExtractedPath(record.path)).selection_set)

\* a split record with two extracted groups at a selection set that selects a
\* key field of its parent type next to other fields
C7_Witness ==
    /\ last_split.result.kind = "Ok"
    /\ Cardinality(DOMAIN last_split.result.splits) >= 2
    /\ SelectedKeyFields(SiteOf(last_split.document_split.document,
                                last_split.result.path)) # {}
    /\ Len(last_split.result.path) > 2

\* The fields of a selection set in document order, one entry per occurrence:
\* the path of field names from the root (an inline fragment adds no segment),
\* whether the field is a key field of its containing type, a leaf, or an
\* introspection field.
RECURSIVE FieldList(_, _, _, _)
FieldList(m, type, selection_set, prefix) ==
    IF selection_set = <<>>
    THEN <<>>
    ELSE LET selection == Head(selection_set)
             here ==
                 IF selection.kind = "Field"
                 THEN <<[path |-> Append(prefix, selection.name),
                         key |-> selection.name \in key_field_names(m, type),
                         leaf |-> selection.selection_set = <<>>,
                         introspection |-> IsIntrospection(selection.name)]>>
                      \o (IF HasField(type, selection.name)
                          THEN FieldList(m, FieldType(type, selection.name),
                                         selection.selection_set,
                                         Append(prefix, selection.name))
                          ELSE <<>>)
                 ELSE FieldList(m, IF selection.name = "" THEN type ELSE selection.name,
                                selection.selection_set, prefix)
         IN  here \o FieldList(m, type, Tail(selection_set), prefix)

FieldsOf(document) == FieldList(manifest, RootType, OperationSelections(document), <<>>)

PathsOf(fields) ==
    { fields[i].path : i \in { j \in 1..Len(fields) : ~ fields[j].introspection } }

CountOf(fields, path) == Cardinality({ i \in 1..Len(fields) : fields[i].path = path })

\* the fields of all returned sub-documents
RECURSIVE FieldsOfSplits(_)
FieldsOfSplits(keys) ==
    IF keys = {}
    THEN <<>>
    ELSE LET k == CHOOSE key \in keys : TRUE
         IN  FieldsOf(document_splits[k]) \o FieldsOfSplits(keys \ {k})

\* the keys of the returned sub-documents that select a field path
KeysSelecting(path) ==
    { k \in SplitKeys : CountOf(FieldsOf(document_splits[k]), path) > 0 }

\* C1: when split succeeds, the field paths of the returned sub-documents are,
\* introspection fields aside, the field paths of the target operation of the
\* input document, and no field path of a leaf field that is no key field of its
\* containing type occurs in more than one sub-document (the fields that have
\* selections, the ancestors of a split selection set, are excepted).
C1_SplitCoverage ==
    Returned =>
        LET original == FieldsOf(input_document)
        IN  /\ PathsOf(FieldsOfSplits(SplitKeys)) = PathsOf(original)
            /\ \A i \in 1..Len(original) :
                   (original[i].leaf /\ ~ original[i].key /\ ~ original[i].introspection)
                       => Cardinality(KeysSelecting(original[i].path)) <= 1

\* equality of JSON objects whatever the order of their keys
RECURSIVE SameEntries(_, _)
SameEntries(a, b) ==
    /\ Keys(a) = Keys(b)
    /\ Len(a) = Len(b)
    /\ \A k \in Keys(a) :
           LET va == MapValue(a, k)
               vb == MapValue(b, k)
           IN  IF va.t = "object" /\ vb.t = "object"
               THEN SameEntries(va.o, vb.o)
               ELSE va = vb

\* the data the mock origin returns for the input document itself
OriginData == MockObject(RootType, OperationSelections(input_document))

\* C2: when every sub-document of split is answered by the mock origin with the
\* object data of its selections, merge_responses succeeds and the merged data
\* is the data the mock origin returns for the input document.
C2_MergeInvertsSplit ==
    pc = "done" =>
        /\ merged.ok
        /\ merged.data.object
        /\ SameEntries(merged.data.map, OriginData)

\* the number of fields and inline fragments of a selection set
RECURSIVE SelectionCount(_)
SelectionCount(selection_set) ==
    IF selection_set = <<>>
    THEN 0
    ELSE 1 + SelectionCount(Head(selection_set).selection_set)
           + SelectionCount(Tail(selection_set))

DocumentSize(document) == SelectionCount(OperationSelections(document))

\* the work items a split record has just pushed
PushedItems == {PushedRemainder} \cup PushedExtracts

\* The (selection set, max-age bucket) pairs of a document at the selection
\* sets that hold more than one bucket: the splitter's pass over the document,
\* continued past every split record it finds, counting at each record its
\* extracted max-ages and its remainder.
RECURSIVE BucketPairsOfSet(_, _, _, _), BucketPairsOfSelections(_, _, _, _, _)
BucketPairsOfSelection(m, st, selection, path) ==
    LET e == IF selection.kind = "Field"
             THEN enter_field(st, selection)
             ELSE enter_inline_fragment(st, selection)
    IN  IF e.flow # "Next"
        THEN [st |-> st, n |-> 0]
        ELSE LET r == BucketPairsOfSet(m, e.st, selection.selection_set,
                                       Append(path, SelectionSetSeg))
             IN  [st |-> [r.st EXCEPT !.type_stack = Pop(@)], n |-> r.n]

BucketPairsOfSelections(m, st, selection_set, path, i) ==
    IF i > Len(selection_set)
    THEN [st |-> st, n |-> 0]
    ELSE LET r == BucketPairsOfSelection(m, st, selection_set[i],
                                         Append(path, Index(i - 1)))
             q == BucketPairsOfSelections(m, r.st, selection_set, path, i + 1)
         IN  [st |-> q.st, n |-> r.n + q.n]

BucketPairsOfSet(m, st, selection_set, path) ==
    LET e == enter_selection_set(m, st, selection_set, path)
    IN  IF e.flow = "Skip"
        THEN [st |-> e.st, n |-> 0]
        ELSE LET here == IF e.st.result.kind = "Ok"
                         THEN Cardinality(DOMAIN e.st.result.splits)
                              + (IF e.st.result.selection_set = <<>> THEN 0 ELSE 1)
                         ELSE 0
                 r == BucketPairsOfSelections(m, [e.st EXCEPT !.result = NoResult],
                                              selection_set, path, 1)
             IN  [st |-> r.st, n |-> here + r.n]

BucketPairs(document) ==
    LET d == OperationIndex(document, operation_name)
        e == enter_operation(manifest, operation_name, NewQuerySplitter, document[d])
    IN  BucketPairsOfSet(manifest, e.st, document[d].selection_set,
                         <<Index(d - 1), SelectionSetSeg>>).n

FewerSelections ==
    last_split.result.kind = "Ok" =>
        \A pushed \in PushedItems :
            DocumentSize(pushed.document)
                < DocumentSize(last_split.document_split.document)

C6_SplitIdempotent ==
    Returned =>
        \A k \in SplitKeys :
            SplitterResult(manifest, operation_name, document_splits[k]).kind = "None"

----------------------------------------------------------------------------
(* Properties of merge_responses *)

AllValid == \A i \in 1..Len(parts) : parts[i].response.valid

\* the data objects of the partial responses, in input order
ObjectParts ==
    SelectSeq([i \in 1..Len(parts) |-> parts[i].response.data],
              LAMBDA data : data.present /\ data.object)

\* the non-null scalars the partial responses hold at a path, in input order
ScalarsAt(path) ==
    LET found == [i \in 1..Len(ObjectParts) |-> dot_get(ObjectParts[i].map, path)]
        scalars == SelectSeq(found, LAMBDA got : got.found /\ IsScalarValue(got.value))
    IN  [i \in 1..Len(scalars) |-> scalars[i].value]

Conflicting(path) ==
    \E i, j \in 1..Len(ScalarsAt(path)) : ScalarsAt(path)[i] # ScalarsAt(path)[j]

\* the fields of the original document in the order of the walk
Walk == FieldsOf(input_document)

WalkPaths == { Walk[i].path : i \in 1..Len(Walk) }

\* the first scalar at a path that differs from the first one
FirstOther(path) ==
    LET scalars == ScalarsAt(path)
        i == CHOOSE k \in 1..Len(scalars) :
                /\ scalars[k] # scalars[1]
                /\ \A l \in 1..(k - 1) : scalars[l] = scalars[1]
    IN  scalars[i]

\* a partial response holds a scalar where the document selects sub-fields
ScalarAbove(path) ==
    \E n \in 1..(Len(path) - 1) : ScalarsAt(SubSeq(path, 1, n)) # <<>>

\* C8 as stated: when two partial responses hold different non-null scalars at
\* a field path of the document, merge_responses fails with the error that
\* names such a path and the two values, and it raises no error for a path
\* whose non-null scalars are all equal.
C8_ConflictErrorNamesPath ==
    (pc = "done" /\ AllValid) =>
        /\ (\E path \in WalkPaths : Conflicting(path)) =>
               /\ ~ merged.ok
               /\ merged.error.kind = "conflict"
               /\ Conflicting(merged.error.path)
        /\ merged.error.kind \in {"conflict", "set"} => Conflicting(merged.error.path)

\* C8 (amended): when two partial responses hold different non-null scalars at
\* a field path of the document, merge_responses fails and returns no merged
\* response; its conflict error names the first such path of the walk, the
\* first scalar there and the first one that differs; the only other error of
\* the walk is that a path cannot be set, below a path where a partial holds a
\* scalar; without either, the merge succeeds.
C8_MergeConflict ==
    (pc = "done" /\ AllValid) =>
        /\ (\E path \in WalkPaths : Conflicting(path)) =>
               (~ merged.ok /\ merged.error.kind \in {"conflict", "set"})
        /\ merged.error.kind = "conflict" =>
               /\ Conflicting(merged.error.path)
               /\ \E i \in 1..Len(Walk) :
                      /\ Walk[i].path = merged.error.path
                      /\ \A j \in 1..(i - 1) : ~ Conflicting(Walk[j].path)
               /\ merged.error.value = ScalarsAt(merged.error.path)[1]
               /\ merged.error.other = FirstOther(merged.error.path)
        /\ merged.error.kind = "set" =>
               (merged.error.path \in WalkPaths /\ ScalarAbove(merged.error.path))
        /\ (\A path \in WalkPaths : ~ Conflicting(path) /\ ~ ScalarAbove(path)) =>
               merged.ok

\* a conflict below a nested field between the second and a later value
C8_Witness ==
    /\ pc = "done"
    /\ merged.error.kind = "conflict"
    /\ Len(merged.error.path) = 2
    /\ Len(ObjectParts) = 2
    /\ merged.error.value = JNumber(1)
    /\ merged.error.other = JNumber(2)

\* C9: when merge_responses succeeds with an object, the merged value at the
\* path of every leaf field of the document is the first non-null scalar the
\* partial responses hold at the path, and null when they hold none.
C9_LeafAdoption ==
    (pc = "done" /\ merged.ok /\ merged.data.object) =>
        \A i \in 1..Len(Walk) :
            Walk[i].leaf =>
                LET got == dot_get(merged.data.map, Walk[i].path)
                    scalars == ScalarsAt(Walk[i].path)
                IN  /\ got.found
                    /\ got.value = IF scalars = <<>> THEN JNull ELSE scalars[1]

\* C10: when merge_responses succeeds, data is an object if a partial response
\* has an object as data; otherwise it is null if a partial response has data
\* present (as null), and the key is absent if none has.
C10_ThreeStateData ==
    (pc = "done" /\ merged.ok) =>
        IF \E i \in 1..Len(parts) : parts[i].response.data.object
        THEN merged.data.present /\ merged.data.object
        ELSE IF \E i \in 1..Len(parts) : parts[i].response.data.present
             THEN merged.data = NullData
             ELSE merged.data = AbsentData

\* a partial response without data and one with data: null merge to data: null
C10_Witness ==
    /\ pc = "done"
    /\ merged.ok
    /\ merged.data = NullData
    /\ Len(parts) = 2
    /\ parts[1].response.data = AbsentData
    /\ parts[2].response.data = NullData

----------------------------------------------------------------------------
(* Properties of the aggregated outputs of merge_responses *)

\* the errors arrays of the parts, concatenated in input order
RECURSIVE ErrorsInOrder(_)
ErrorsInOrder(the_parts) ==
    IF the_parts = <<>>
    THEN <<>>
    ELSE (IF Head(the_parts).response.errors.some
          THEN Head(the_parts).response.errors.val
          ELSE <<>>)
         \o ErrorsInOrder(Tail(the_parts))

\* C11: a merged response holds the errors of the partials concatenated in
\* input order, without the key when there is none, and one partialQueries entry
\* per partial, in input order, with its printed query and its extensions
C11_AggregatesInInputOrder ==
    (pc = "done" /\ merged.ok) =>
        /\ merged.errors = IF ErrorsInOrder(parts) = <<>>
                           THEN NoErrors
                           ELSE [some |-> TRUE, val |-> ErrorsInOrder(parts)]
        /\ Len(merged.partial_queries) = Len(parts)
        /\ \A i \in 1..Len(parts) :
              /\ merged.partial_queries[i].query = query(parts[i].input)
              /\ merged.partial_queries[i].response_extensions = parts[i].response.extensions

\* two partials with different queries, errors and extensions were merged
C11_Witness ==
    /\ pc = "done" /\ merged.ok
    /\ Len(parts) = 2
    /\ parts[1].response.errors.some /\ Len(parts[1].response.errors.val) = 2
    /\ parts[2].response.errors.some /\ Len(parts[2].response.errors.val) = 1
    /\ query(parts[1].input) # query(parts[2].input)
    /\ parts[1].response.extensions.some /\ ~ parts[2].response.extensions.some
    /\ merged.errors.val = parts[1].response.errors.val \o parts[2].response.errors.val

\* the position of the first occurrence of a field path in the walk
FirstOccurrence(path) ==
    CHOOSE i \in 1..Len(Walk) :
        /\ Walk[i].path = path
        /\ \A j \in 1..(i - 1) : Walk[j].path # path

\* the keys of an object in the order in which it holds them
KeySeq(entries) == [i \in 1..Len(entries) |-> entries[i].k]

\* the objects of the merged data: the root and every object at a field path
MergedObjects ==
    { [path |-> <<>>, entries |-> merged.data.map] }
    \cup { [path |-> p, entries |-> dot_get(merged.data.map, p).value.o] :
             p \in { q \in WalkPaths : /\ dot_get(merged.data.map, q).found
                                       /\ dot_get(merged.data.map, q).value.t = "object" } }

\* C12: in every object of the merged data the keys are fields of the
\* document and stand in the order of their first occurrence in the document
C12_KeysInDocumentOrder ==
    (pc = "done" /\ merged.ok /\ merged.data.object) =>
        \A object \in MergedObjects :
            /\ \A i \in 1..Len(object.entries) :
                  Append(object.path, KeySeq(object.entries)[i]) \in WalkPaths
            /\ \A i, j \in 1..Len(object.entries) :
                  i < j => FirstOccurrence(Append(object.path, KeySeq(object.entries)[i]))
                           < FirstOccurrence(Append(object.path, KeySeq(object.entries)[j]))

\* the operation of a document that the request names
TargetOperation(document) == document[FirstOperation(document, operation_name)]

\* a selection set holds a spread, at any depth
RECURSIVE HasSpread(_)
HasSpread(selection_set) ==
    \E i \in 1..Len(selection_set) :
        \/ selection_set[i].kind = "FragmentSpread"
        \/ HasSpread(selection_set[i].selection_set)

\* result is selection_set with every spread replaced at its position by an
\* inline fragment with the type condition of the fragment and with the
\* selection set of the fragment, itself replaced in the same way
RECURSIVE Replaced(_, _, _)
Replaced(document, selection_set, result) ==
    /\ Len(result) = Len(selection_set)
    /\ \A i \in 1..Len(selection_set) :
          IF selection_set[i].kind = "FragmentSpread"
          THEN \E d \in 1..Len(document) :
                  /\ document[d].kind = "Fragment"
                  /\ document[d].name = selection_set[i].name
                  /\ result[i].kind = "InlineFragment"
                  /\ result[i].name = document[d].type_condition
                  /\ Replaced(document, document[d].selection_set, result[i].selection_set)
          ELSE /\ result[i].kind = selection_set[i].kind
               /\ result[i].name = selection_set[i].name
               /\ Replaced(document, selection_set[i].selection_set, result[i].selection_set)

\* the request was inlined without an error
Inlined == pc # "receive" /\ inlined.kind = "Ok"

\* C13: after inline_fragments succeeds the document has no spread at any
\* depth and no fragment definition, and the selections of the target
\* operation are those of the request with each spread replaced, at its
\* position, by the inline fragment of its fragment
C13_InliningPostcondition ==
    Inlined =>
        /\ \A d \in 1..Len(inlined.node) :
              /\ inlined.node[d].kind # "Fragment"
              /\ ~ HasSpread(inlined.node[d].selection_set)
        /\ \E d \in 1..Len(inlined.node) :
              /\ inlined.node[d].kind = "Operation"
              /\ inlined.node[d].name = operation_name
              /\ Replaced(request_document,
                          TargetOperation(request_document).selection_set,
                          inlined.node[d].selection_set)

\* a request was inlined whose operation spreads a fragment that spreads a
\* second fragment
C13_Witness ==
    /\ Inlined
    /\ \E d \in 1..Len(request_document) :
          /\ request_document[d].kind = "Fragment"
          /\ HasSpread(request_document[d].selection_set)
          /\ \E i \in 1..Len(TargetOperation(request_document).selection_set) :
                /\ TargetOperation(request_document).selection_set[i].kind = "FragmentSpread"
                /\ TargetOperation(request_document).selection_set[i].name
                      = request_document[d].name

\* the names of the fragments a selection set spreads, at any depth
RECURSIVE SpreadsOf(_)
SpreadsOf(selection_set) ==
    UNION { IF selection_set[i].kind = "FragmentSpread"
            THEN {selection_set[i].name}
            ELSE SpreadsOf(selection_set[i].selection_set) : i \in 1..Len(selection_set) }

\* the names spread by the definitions of the fragments of names
SpreadsOfFragments(document, names) ==
    UNION { IF document[d].kind = "Fragment" /\ document[d].name \in names
            THEN SpreadsOf(document[d].selection_set)
            ELSE {} : d \in 1..Len(document) }

\* the names that names reach through the fragment definitions
RECURSIVE ReachedFrom(_, _)
ReachedFrom(document, names) ==
    IF SpreadsOfFragments(document, names) \subseteq names
    THEN names
    ELSE ReachedFrom(document, names \cup SpreadsOfFragments(document, names))

\* a fragment that spreads itself, directly or through other fragments
SpreadsItself(document, name) ==
    name \in ReachedFrom(document, SpreadsOfFragments(document, {name}))

\* the target operation reaches a fragment that spreads itself
ReachesCycle(document) ==
    \E name \in ReachedFrom(document, SpreadsOf(TargetOperation(document).selection_set)) :
        SpreadsItself(document, name)

\* C14: when the target operation reaches a fragment that spreads itself,
\* inline_fragments returns and fails with a CyclicFragment error
C14_CycleDetected ==
    (pc # "receive" /\ ReachesCycle(request_document)) =>
        /\ pc = "error"
        /\ inlined.kind = "CyclicFragment"

\* the names of the fragments a document defines
DefinedFragments(document) ==
    { document[d].name : d \in { e \in 1..Len(document) : document[e].kind = "Fragment" } }

\* the names without a definition that the target operation reaches
UnknownReached(document) ==
    ReachedFrom(document, SpreadsOf(TargetOperation(document).selection_set))
        \ DefinedFragments(document)

\* C15: when the target operation reaches a spread of a fragment that the
\* document does not define, inline_fragments fails with an error that names
\* the fragment, and split returns it without any sub-document
C15_UnknownFragment ==
    (pc # "receive" /\ UnknownReached(request_document) # {}) =>
        /\ pc = "error"
        /\ inlined.kind = "Err"
        /\ inlined.name \in UnknownReached(request_document)
        /\ document_splits = <<>>
        /\ documents_to_split = <<>>

\* the definitions of a document that are operations other than the target
OtherOperations(document) ==
    { d \in 1..Len(document) :
        /\ document[d].kind = "Operation"
        /\ d # FirstOperation(document, operation_name) }

\* C16 as stated: every operation other than the target is still in the
\* document after inline_fragments, unchanged
C16_OtherOperationsKept ==
    Inlined =>
        \A d \in OtherOperations(request_document) :
            \E e \in 1..Len(inlined.node) : inlined.node[e] = request_document[d]

\* C16: after inline_fragments succeeds the document holds one definition,
\* the target operation; every other operation of the request is removed
C16_OnlyTargetOperation ==
    Inlined =>
        /\ Len(inlined.node) = 1
        /\ inlined.node[1].kind = "Operation"
        /\ inlined.node[1].name = operation_name
        /\ Replaced(request_document,
                    TargetOperation(request_document).selection_set,
                    inlined.node[1].selection_set)

\* a request with a second operation in front of the target was inlined
C16_Witness ==
    /\ Inlined
    /\ OtherOperations(request_document) # {}
    /\ Len(inlined.node) = 1

\* the top-level selections of the target operation of a document
TargetSelections(document) == TargetOperation(document).selection_set

\* C17: merge_documents(a, b, name) returns a document whose operation
\* selects all top-level selections of a's operation in their order, followed
\* by all top-level selections of b's operation in their order
C17_MergedSelectionsInOrder ==
    [][SplitMergeDeposit =>
          TargetSelections(document_splits'[Popped.max_age])
              = TargetSelections(document_splits[Popped.max_age])
                \o TargetSelections(Popped.document)]_vars

NothingToInline(document) ==
    /\ \A d \in 1..Len(document) : document[d].kind = "Operation"
    /\ OtherOperations(document) = {}
    /\ ~ HasSpread(TargetSelections(document))

ParsedFragments ==
    { parsed.node[d] : d \in { e \in 1..Len(parsed.node) : parsed.node[e].kind = "Fragment" } }

\* C19: a text with a fragment definition whose name is on is rejected, and
\* a fragment whose name is its type condition is accepted
C19_OnIsNoFragmentName ==
    /\ pc = "parsed" => \A fragment \in ParsedFragments : fragment.name # "on"
    /\ (pc # "parse" /\ source = <<"fragment", "X", "on", "X", "{", "a", "}">>) =>
          /\ pc = "parsed"
          /\ parsed.node = <<FragmentDefinition("X", "X", <<Leaf("a")>>)>>

\* the type that the selection set of a selection is entered with
ChildType(type, selection) ==
    IF selection.kind = "Field"
    THEN FieldType(type, selection.name)
    ELSE IF selection.name = "" THEN type ELSE selection.name

\* the max-ages the manifest configures for a type and for the fields that a
\* selection set of that type selects
AgesAt(m, selection_set, type) ==
    {type_max_age(m, type)}
    \cup { field_max_age(m, type, selection_set[i].name) :
             i \in { j \in 1..Len(selection_set) : selection_set[j].kind = "Field" } }

\* the max-ages configured for the selection sets that a pass enters when it
\* walks a whole selection set of a type
RECURSIVE AgesBelow(_, _, _)
AgesUnder(m, selection, type) ==
    IF selection.kind = "Field" /\ IsIntrospection(selection.name)
    THEN {}
    ELSE AgesBelow(m, selection.selection_set, ChildType(type, selection))

AgesBelow(m, selection_set, type) ==
    IF selection_set = <<>>
    THEN {}
    ELSE AgesAt(m, selection_set, type)
         \cup UNION { AgesUnder(m, selection_set[i], type) : i \in 1..Len(selection_set) }

\* the max-ages configured for the selection sets that a pass has entered
\* when it arrives at the selection set that the indices address
RECURSIVE AgesBefore(_, _, _, _, _)
AgesBefore(m, selection_set, type, indices, seen) ==
    IF indices = <<>>
    THEN seen
    ELSE AgesBefore(m, selection_set[Head(indices) + 1].selection_set,
                    ChildType(type, selection_set[Head(indices) + 1]),
                    Tail(indices),
                    seen \cup AgesAt(m, selection_set, type)
                         \cup UNION { AgesUnder(m, selection_set[i], type) :
                                        i \in 1..Head(indices) })

\* the least of a set of optional max-ages
MinAge(ages) ==
    IF \A age \in ages : ~ age.some
    THEN None
    ELSE Some(CHOOSE v \in { age.val : age \in { a \in ages : a.some } } :
                 \A age \in ages : age.some => v <= age.val)

\* the max-age that a selection set of a document inherits in a pass: the
\* least max-age of the root type, of the selection sets entered before it
\* and of its own parent type
InheritedAt(m, document, path) ==
    MinAge(AgesBefore(m, document[Head(path).i + 1].selection_set, RootType,
                      SelectionIndices(Tail(path)), {type_max_age(m, RootType)})
           \cup {type_max_age(m, SiteOf(document, path).type)})

\* min_max_age: the least of the inherited max-age and the field max-ages
MinMaxAgeAt(m, site, inherited) ==
    MinAge({inherited} \cup AgesAt(m, site.selection_set, site.type))

\* e(f): the field max-age if configured, the inherited max-age otherwise
EffectiveAge(m, type, field, inherited) ==
    OptOr(field_max_age(m, type, field.name), inherited)

\* the partition of a selection set by the rule, for an inherited max-age
PartitionRule(m, record, site, inherited, lowest) ==
    LET IsKeyField(s) == s.kind = "Field" /\ s.name \in key_field_names(m, site.type)
        E(s) == EffectiveAge(m, site.type, s, inherited)
        Extracted(s) == /\ s.kind = "Field" /\ ~ IsKeyField(s)
                        /\ E(s).some /\ E(s).val > lowest.val
        groups == { E(site.selection_set[i]).val :
                      i \in { j \in 1..Len(site.selection_set) :
                                Extracted(site.selection_set[j]) } }
    IN  /\ lowest.some
        /\ record.max_age = lowest
        /\ DOMAIN record.splits = groups
        /\ \A i \in 1..Len(site.selection_set) :
              ~ IsKeyField(site.selection_set[i]) =>
                  /\ Extracted(site.selection_set[i])
                        <=> ~ InSeq(site.selection_set[i], record.selection_set)
                  /\ \A age \in groups :
                        InSeq(site.selection_set[i], record.splits[age])
                            <=> (/\ Extracted(site.selection_set[i])
                                 /\ E(site.selection_set[i]).val = age)

\* C20: a split record partitions its selection set by the rule: a non-key
\* field is in the group of its effective max-age exactly when that max-age is
\* greater than min_max_age, every other selection that is not a key field is
\* in the remainder, the remainder is labelled Some(min_max_age), and
\* there is one group per distinct max-age of the extracted fields
C20_PartitionRule ==
    last_split.result.kind = "Ok" =>
        PartitionRule(manifest, last_split.result,
                      SiteOf(last_split.document_split.document, last_split.result.path),
                      InheritedAt(manifest, last_split.document_split.document,
                                  last_split.result.path),
                      MinMaxAgeAt(manifest,
                                  SiteOf(last_split.document_split.document,
                                         last_split.result.path),
                                  InheritedAt(manifest, last_split.document_split.document,
                                              last_split.result.path)))

\* a split record below the root whose group holds a field without a field
\* max-age, extracted under the inherited one
C20_Witness ==
    /\ last_split.result.kind = "Ok"
    /\ Len(last_split.result.path) > 2
    /\ \E age \in DOMAIN last_split.result.splits :
          \E i \in 1..Len(last_split.result.splits[age]) :
              /\ last_split.result.splits[age][i].kind = "Field"
              /\ last_split.result.splits[age][i].name
                    \notin key_field_names(manifest,
                                           SiteOf(last_split.document_split.document,
                                                  last_split.result.path).type)
              /\ ~ field_max_age(manifest,
                                 SiteOf(last_split.document_split.document,
                                        last_split.result.path).type,
                                 last_split.result.splits[age][i].name).some
    /\ last_split.result.selection_set # <<>>

\* the index sequences of the selection sets that a pass enters below a
\* selection set when nothing stops it: the empty ones and those below an
\* introspection field are skipped
RECURSIVE EnteredSets(_)
EnteredUnder(selection) ==
    IF selection.kind = "Field" /\ IsIntrospection(selection.name)
    THEN {}
    ELSE EnteredSets(selection.selection_set)

EnteredSets(selection_set) ==
    IF selection_set = <<>>
    THEN {}
    ELSE {<<>>} \cup UNION { { <<i - 1>> \o p : p \in EnteredUnder(selection_set[i]) } :
                              i \in 1..Len(selection_set) }

\* p is entered before q in depth-first document order
EnteredBefore(p, q) ==
    \/ Len(p) < Len(q) /\ SubSeq(q, 1, Len(p)) = p
    \/ \E k \in 1..Len(p) :
          /\ k <= Len(q)
          /\ SubSeq(p, 1, k - 1) = SubSeq(q, 1, k - 1)
          /\ p[k] < q[k]

\* the path of the selection set below the operation at index d that a
\* sequence of indices addresses
RECURSIVE PathBelow(_)
PathBelow(indices) ==
    IF indices = <<>>
    THEN <<>>
    ELSE <<Index(Head(indices)), SelectionSetSeg>> \o PathBelow(Tail(indices))

PathOf(d, indices) == <<Index(d - 1), SelectionSetSeg>> \o PathBelow(indices)

\* the numbers of split groups and of non-splittable selections of a
\* selection set, by the partition rule
SplitGroups(m, site, inherited, lowest) ==
    { EffectiveAge(m, site.type, site.selection_set[i], inherited).val :
        i \in { j \in 1..Len(site.selection_set) :
                  /\ site.selection_set[j].kind = "Field"
                  /\ site.selection_set[j].name \notin key_field_names(m, site.type)
                  /\ EffectiveAge(m, site.type, site.selection_set[j], inherited).some
                  /\ EffectiveAge(m, site.type, site.selection_set[j], inherited).val
                        > lowest.val } }

NonSplittable(m, site, inherited, lowest) ==
    { i \in 1..Len(site.selection_set) :
        \/ site.selection_set[i].kind # "Field"
        \/ /\ site.selection_set[i].name \notin key_field_names(m, site.type)
           /\ ~ (/\ EffectiveAge(m, site.type, site.selection_set[i], inherited).some
                 /\ EffectiveAge(m, site.type, site.selection_set[i], inherited).val
                       > lowest.val) }

\* a selection set that is to be split: two groups, or one beside other selections
SplittableSite(m, site, inherited, lowest) ==
    /\ lowest.some
    /\ \/ Cardinality(SplitGroups(m, site, inherited, lowest)) >= 2
       \/ /\ Cardinality(SplitGroups(m, site, inherited, lowest)) = 1
          /\ NonSplittable(m, site, inherited, lowest) # {}

SplittableWith(m, site, inherited) ==
    SplittableSite(m, site, inherited, MinMaxAgeAt(m, site, inherited))

SplittableAt(m, document, path) ==
    SplittableWith(m, SiteOf(document, path), InheritedAt(m, document, path))

\* one group and nothing beside it
SingleGroupSite(m, site, inherited, lowest) ==
    /\ lowest.some
    /\ Cardinality(SplitGroups(m, site, inherited, lowest)) = 1
    /\ NonSplittable(m, site, inherited, lowest) = {}

SingleGroupAt(m, document, path) ==
    SingleGroupSite(m, SiteOf(document, path), InheritedAt(m, document, path),
                    MinMaxAgeAt(m, SiteOf(document, path), InheritedAt(m, document, path)))

\* the index sequences of the selection sets of the target operation that a
\* pass over a document enters when nothing stops it
EnteredOf(document) == EnteredSets(TargetSelections(document))

TargetIndex(document) == FirstOperation(document, operation_name)

\* the pass over the popped document found nothing to split, or a record
FirstSplittable(m, document, result) ==
    /\ result.kind = "None" =>
          \A p \in EnteredOf(document) :
              ~ SplittableAt(m, document, PathOf(TargetIndex(document), p))
    /\ result.kind = "Ok" =>
          /\ SelectionIndices(Tail(result.path)) \in EnteredOf(document)
          /\ result.path = PathOf(TargetIndex(document), SelectionIndices(Tail(result.path)))
          /\ SplittableAt(m, document, result.path)
          /\ \A p \in EnteredOf(document) :
                EnteredBefore(p, SelectionIndices(Tail(result.path))) =>
                    ~ SplittableAt(m, document, PathOf(TargetIndex(document), p))

\* C21: a pass emits a record for the first selection set in depth-first
\* document order that has two split groups, or one split group beside a
\* non-empty non-splittable set, with the path of that selection set, and
\* emits none when no selection set is such
C21_FirstSplittableSelectionSet ==
    last_split.document_split.document # <<>> =>
        FirstSplittable(manifest, last_split.document_split.document, last_split.result)

\* a record below the root, emitted after the pass went through a selection
\* set with one group and nothing beside it
C21_Witness ==
    /\ last_split.result.kind = "Ok"
    /\ Len(last_split.result.path) > 2
    /\ \E p \in EnteredOf(last_split.document_split.document) :
          /\ EnteredBefore(p, SelectionIndices(Tail(last_split.result.path)))
          /\ SingleGroupAt(manifest, last_split.document_split.document,
                           PathOf(TargetIndex(last_split.document_split.document), p))

\* sub holds selections of seq in the relative order they have in seq
RECURSIVE InOrder(_, _)
InOrder(sub, seq) ==
    IF sub = <<>>
    THEN TRUE
    ELSE IF seq = <<>>
    THEN FALSE
    ELSE IF Head(sub) = Head(seq)
    THEN InOrder(Tail(sub), Tail(seq))
    ELSE InOrder(sub, Tail(seq))

\* the selection sets of a record: the remainder and the extracted ones
RecordSelectionSets(record) ==
    {record.selection_set} \cup { record.splits[age] : age \in DOMAIN record.splits }

\* C22 as stated: the selections of the remainder and of every extracted
\* selection set of a record stand in the relative order they have in the
\* original selection set, key fields included
C22_InsertionOrderKept ==
    last_split.result.kind = "Ok" =>
        \A kept \in RecordSelectionSets(last_split.result) :
            InOrder(kept, SiteOf(last_split.document_split.document,
                                 last_split.result.path).selection_set)

\* the key fields and the other selections of a selection set, in its order
KeyFieldsOf(m, site) ==
    LET IsKeyField(s) == s.kind = "Field" /\ s.name \in key_field_names(m, site.type)
    IN  SelectSeq(site.selection_set, IsKeyField)

OthersOf(m, site) ==
    LET IsOther(s) == ~ (s.kind = "Field" /\ s.name \in key_field_names(m, site.type))
    IN  SelectSeq(site.selection_set, IsOther)

\* kept is selections of others in their order, followed by all of keys
OthersThenKeys(kept, others, keys) ==
    /\ Len(kept) >= Len(keys)
    /\ SubSeq(kept, Len(kept) - Len(keys) + 1, Len(kept)) = keys
    /\ InOrder(SubSeq(kept, 1, Len(kept) - Len(keys)), others)

\* C22: in the remainder and in every extracted selection set of a record the
\* selections that are not key fields stand in the relative order they have
\* in the original selection set, and the key fields follow them, in their order
C22_KeyFieldsLast ==
    last_split.result.kind = "Ok" =>
        \A kept \in RecordSelectionSets(last_split.result) :
            OthersThenKeys(kept,
                           OthersOf(manifest, SiteOf(last_split.document_split.document,
                                                     last_split.result.path)),
                           KeyFieldsOf(manifest, SiteOf(last_split.document_split.document,
                                                        last_split.result.path)))

\* a record for a selection set that selects a key field in front of other selections
C22_Witness ==
    /\ last_split.result.kind = "Ok"
    /\ KeyFieldsOf(manifest, SiteOf(last_split.document_split.document,
                                    last_split.result.path)) # <<>>
    /\ Head(SiteOf(last_split.document_split.document, last_split.result.path).selection_set)
          = Head(KeyFieldsOf(manifest, SiteOf(last_split.document_split.document,
                                              last_split.result.path)))
    /\ Len(last_split.result.selection_set) >= 2
    /\ Head(last_split.result.selection_set)
          # Head(SiteOf(last_split.document_split.document,
                        last_split.result.path).selection_set)

\* the index sequences of all selection sets below a selection set, the
\* empty selection sets of the leaves among them
RECURSIVE AllSets(_)
AllSets(selection_set) ==
    {<<>>} \cup UNION { { <<i - 1>> \o p : p \in AllSets(selection_set[i].selection_set) } :
                         i \in 1..Len(selection_set) }

\* the paths of the selection sets of a document
SelectionSetPaths(document) ==
    UNION { { PathOf(d, indices) : indices \in AllSets(document[d].selection_set) } :
              d \in 1..Len(document) }

\* the paths of the operations of a document
OperationPaths(document) == { <<Index(d - 1)>> : d \in 1..Len(document) }

\* the selection set a document has at the path of a selection set
RECURSIVE SetBelow(_, _)
SetBelow(selection_set, indices) ==
    IF indices = <<>>
    THEN selection_set
    ELSE SetBelow(selection_set[Head(indices) + 1].selection_set, Tail(indices))

SetAt(document, path) ==
    SetBelow(document[Head(path).i + 1].selection_set, SelectionIndices(Tail(path)))

\* a node without its selection set
Bare(node) == [node EXCEPT !.selection_set = <<>>]

\* two selection sets are equal outside the selection set that the indices address
RECURSIVE SameOutside(_, _, _)
SameOutside(a, b, indices) ==
    \/ indices = <<>>
    \/ /\ indices # <<>>
       /\ Len(a) = Len(b)
       /\ \A i \in 1..Len(a) :
             IF i = Head(indices) + 1
             THEN /\ Bare(a[i]) = Bare(b[i])
                  /\ SameOutside(a[i].selection_set, b[i].selection_set, Tail(indices))
             ELSE a[i] = b[i]

\* two documents are equal outside the selection set at a path
SameOutsideOf(a, b, path) ==
    /\ Len(a) = Len(b)
    /\ \A d \in 1..Len(a) :
          IF d = Head(path).i + 1
          THEN /\ Bare(a[d]) = Bare(b[d])
               /\ SameOutside(a[d].selection_set, b[d].selection_set,
                              SelectionIndices(Tail(path)))
          ELSE a[d] = b[d]

\* the result has the selection set at the path of a selection set of the
\* document, and is the document outside of it
ReplacedAt(document, result, path, selection_set) ==
    /\ path \in SelectionSetPaths(result)
    /\ SetAt(result, path) = selection_set
    /\ SameOutsideOf(document, result, path)

\* C23 as stated: the fold of a document with SelectionSetReplacer(path, S)
\* has S as the selection set at exactly that path and equals the document
\* everywhere else; when no selection set of the document has that path, the
\* fold equals the document
C23_ReplacerFrame ==
    folding.folder = "Replacer" =>
        /\ folding.result.kind = "Ok"
        /\ IF folding.path \in SelectionSetPaths(request_document)
           THEN ReplacedAt(request_document, folding.result.node, folding.path,
                           folding.selection_set)
           ELSE folding.result.node = request_document

\* C23: the fold of a document with SelectionSetReplacer(path, S) has S as the
\* selection set at exactly that path, or as the selection set of the operation
\* at exactly that path, and equals the document everywhere else; when neither
\* a selection set nor an operation of the document has that path, the fold
\* equals the document
C23_ReplacerFrameOrOperation ==
    folding.folder = "Replacer" =>
        /\ folding.result.kind = "Ok"
        /\ CASE folding.path \in SelectionSetPaths(request_document) ->
                    ReplacedAt(request_document, folding.result.node, folding.path,
                               folding.selection_set)
             [] folding.path \in OperationPaths(request_document) ->
                    ReplacedAt(request_document, folding.result.node,
                               Append(folding.path, SelectionSetSeg), folding.selection_set)
             [] OTHER -> folding.result.node = request_document

\* a selection set below a field of the second operation was replaced
C23_Witness ==
    /\ folding.folder = "Replacer"
    /\ folding.path \in SelectionSetPaths(request_document)
    /\ Len(folding.path) >= 4
    /\ Head(folding.path) = Index(1)
    /\ SetAt(request_document, folding.path) # <<>>
    /\ folding.result.node # request_document

\* kept is the chain of single children that leads from a selection set to
\* the selection set the indices address, with the supplied one in its place
RECURSIVE IsChain(_, _, _, _)
IsChain(kept, selection_set, indices, supplied) ==
    IF indices = <<>>
    THEN kept = supplied
    ELSE /\ Len(kept) = 1
         /\ Bare(kept[1]) = Bare(selection_set[Head(indices) + 1])
         /\ IsChain(kept[1].selection_set, selection_set[Head(indices) + 1].selection_set,
                    Tail(indices), supplied)

\* the operation a path leads into
PathOperation(document, path) == document[Head(path).i + 1]

ReachedFragments(document) ==
    ReachedFrom(document, SpreadsOf(TargetOperation(document).selection_set))

\* the definitions of a document from the second on
Following(document) == { document[i] : i \in 2..Len(document) }

\* the definitions of the fragments of a document that have one of the names
DefinitionsOf(document, names) ==
    { document[d] : d \in { e \in 1..Len(document) :
                              document[e].kind = "Fragment" /\ document[e].name \in names } }

\* C25: fold_operation with the name of an operation returns a document that
\* holds that operation first, then the definition of every fragment the
\* operation reaches through spreads, each once, and no other definition; it
\* fails when no operation has the name or a reached spread names a fragment
\* that is not defined
C25_OperationWithReachedFragments ==
    folding.folder = "FoldNoop" =>
        IF FirstOperation(request_document, operation_name) = 0
        THEN folding.result.kind = "NoOperation"
        ELSE IF UnknownReached(request_document) # {}
        THEN folding.result.kind = "Err"
        ELSE /\ folding.result.kind = "Ok"
             /\ folding.result.node[1] = TargetOperation(request_document)
             /\ Following(folding.result.node)
                   = DefinitionsOf(request_document, ReachedFragments(request_document))
             /\ Len(folding.result.node)
                   = 1 + Cardinality(ReachedFragments(request_document))

\* the spreads of the fragments of a document form a cycle
HasCycle(document) ==
    \E name \in DefinedFragments(document) : SpreadsItself(document, name)

\* C26: NoFragmentCycles reports an error exactly when the spreads of the
\* fragments of the document form a cycle; a document without a cycle is
\* accepted, also when a fragment is reached along two different paths
C26_ErrorIffCycle ==
    folding.folder = "NoFragmentCycles" =>
        (folding.result.kind = "Error" <=> HasCycle(request_document))

\* the type max-ages of the types on the way from a selection set of a type
\* to the selection set that the indices address, both included
RECURSIVE AncestorAges(_, _, _, _)
AncestorAges(m, selection_set, type, indices) ==
    IF indices = <<>>
    THEN {type_max_age(m, type)}
    ELSE {type_max_age(m, type)}
         \cup AncestorAges(m, selection_set[Head(indices) + 1].selection_set,
                           ChildType(type, selection_set[Head(indices) + 1]),
                           Tail(indices))

\* the least type max-age of the types on the path from the root to a selection set
PathAge(m, document, path) ==
    MinAge(AncestorAges(m, document[Head(path).i + 1].selection_set, RootType,
                        SelectionIndices(Tail(path))))

\* C27: the max-age that the selection set of a split record inherits is the
\* least type max-age of the types on its path from the root, whatever was
\* visited before it: the record is the partition of the selection set by the
\* rule for that inherited max-age
C27_InheritedFromAncestors ==
    last_split.result.kind = "Ok" =>
        PartitionRule(manifest, last_split.result,
                      SiteOf(last_split.document_split.document, last_split.result.path),
                      PathAge(manifest, last_split.document_split.document,
                              last_split.result.path),
                      MinMaxAgeAt(manifest,
                                  SiteOf(last_split.document_split.document,
                                         last_split.result.path),
                                  PathAge(manifest, last_split.document_split.document,
                                          last_split.result.path)))

\* the keys of a map in ascending order
Ascending(keys) ==
    CHOOSE order \in Orders(keys) :
        \A i, j \in 1..Cardinality(keys) : i < j => order[i] < order[j]

\* the map split() returns when the extracted groups of every split record
\* are pushed in ascending order of their max-ages: the loop of split() run
\* from a work list and a map, for at most a number of iterations
RECURSIVE SplitAscending(_, _, _, _)
\* one iteration, for the result of the pass over the popped document
SplitAscendingStep(m, work, splits, fuel, result) ==
    IF result.kind = "Ok"
    THEN SplitAscending(m, Pop(work) \o PushedSplits(Last(work).document, result,
                                                     Ascending(DOMAIN result.splits)),
                        splits, fuel - 1)
    ELSE IF result.kind = "Err"
    THEN [returned |-> FALSE, document_splits |-> splits]
    ELSE IF Last(work).max_age \in DOMAIN splits
    THEN SplitAscending(m, Pop(work),
                        [splits EXCEPT ![Last(work).max_age] =
                            merge_documents(@, Last(work).document, operation_name)],
                        fuel - 1)
    ELSE SplitAscending(m, Pop(work),
                        [k \in DOMAIN splits \cup {Last(work).max_age} |->
                            IF k = Last(work).max_age
                            THEN Last(work).document ELSE splits[k]],
                        fuel - 1)

SplitAscending(m, work, splits, fuel) ==
    IF work = <<>>
    THEN [returned |-> TRUE, document_splits |-> splits]
    ELSE IF fuel = 0
    THEN [returned |-> FALSE, document_splits |-> splits]
    ELSE SplitAscendingStep(m, work, splits, fuel,
                            SplitterResult(m, operation_name, Last(work).document))

\* C28: the map split() returns, its keys and the ordered selections under
\* every key, is the same whatever the order in which the extracted groups of
\* a split record are taken from the hash map and pushed: it is the map
\* returned when every record's groups are pushed in ascending order
C28_SplitDeterministic ==
    Returned =>
        document_splits
            = SplitAscending(manifest, <<DocumentSplit(input_document, None)>>, <<>>,
                             MaxIterations).document_splits

\* a selection that has a selection set in every request: an inline
\* fragment, or a field of an object type
TakesSelectionSet(type, selection) ==
    \/ selection.kind = "InlineFragment"
    \/ selection.kind = "Field" /\ ~ IsIntrospection(selection.name)
                                /\ FieldType(type, selection.name) \in ObjectTypes

\* a selection set is not empty, and neither is the selection set of any
\* selection below it that has one in the request
RECURSIVE NothingEmptied(_, _)
NothingEmptied(selection_set, type) ==
    /\ selection_set # <<>>
    /\ \A i \in 1..Len(selection_set) :
          TakesSelectionSet(type, selection_set[i]) =>
              NothingEmptied(selection_set[i].selection_set,
                             ChildType(type, selection_set[i]))

\* C29: in every sub-document that split returns, the target operation selects
\* at least one field, and every field or inline fragment that has a
\* selection set in the request has a selection set that is not empty; a
\* split record never leaves an empty remainder
C29_NoEmptiedSelectionSet ==
    /\ Returned =>
          \A key \in DOMAIN document_splits :
              NothingEmptied(OperationSelections(document_splits[key]), RootType)
    /\ last_split.result.kind = "Ok" => last_split.result.selection_set # <<>>

\* the paths of the entries of a JSON object, at any depth
RECURSIVE EntryPaths(_, _)
EntryPaths(entries, prefix) ==
    UNION { {Append(prefix, entries[i].k)}
            \cup (IF entries[i].v.t = "object"
                  THEN EntryPaths(entries[i].v.o, Append(prefix, entries[i].k))
                  ELSE {}) : i \in 1..Len(entries) }

\* C30: when merge_responses succeeds with an object as data, the object has
\* an entry at every field path that the document selects and at no other
\* path, also when a field is selected more than once: what the walk has set
\* at a path is not lost later
C30_EntriesAreDocumentPaths ==
    (pc = "done" /\ merged.ok /\ merged.data.object) =>
        EntryPaths(merged.data.map, <<>>) = WalkPaths

====
